---- MODULE Spec2Model ----
(***************************************************************************)
(* Verification model of the GreenDataHarvester harvesting core:           *)
(* RateLimiter and RetryHandler (src/src/utils/rateLimiter.js), the INSEE  *)
(* remote client (src/src/sources/insee/client.js), SourceManager          *)
(* (src/src/sources/index.js), HealthManager                               *)
(* (src/src/health/HealthManager.js), PersistenceManager and               *)
(* MongoPersistence (src/unnamed/part_010, part_011), ConfigManager        *)
(* (src/unnamed/part_013), ConfigureSourceCommand (src/unnamed/part_004)   *)
(* the DataTransformer (src/src/sources/insee/client.js) and               *)
(* InseeConnector (src/src/sources/insee/index.js).                        *)
(*                                                                         *)
(* Each component has its own specification over its own group of          *)
(* variables; the variables of the other components stay at their initial  *)
(* values under that specification.                                        *)
(***************************************************************************)
EXTENDS Integers, Sequences, FiniteSets, TLC

VARIABLES
    \* ---- RateLimiter ----
    clock,              \* Date.now(), in ms
    requestsPerMinute,  \* this.requestsPerMinute
    requests,           \* this.requests: recorded timestamps
    calls,              \* one record per checkLimit() call, in arrival order
    \* ---- RetryHandler ----
    rhMaxAttempts,      \* this.maxAttempts
    rhDelayMs,          \* this.delayMs
    rhBackoff,          \* this.backoffMultiplier
    rhPc,               \* position of execute(): "idle", "attempt", "waiting", "returned", "thrown"
    rhAttempt,          \* the loop variable attempt
    rhLastError,        \* the local lastError
    rhDelays,           \* the delays passed to this.wait, in order
    rhOutcome,          \* what execute() resolved or rejected with
    opLog,              \* what operation() did on each invocation, in order
    \* ---- SourceManager ----
    smInitialized,      \* this.initialized
    smConnectors,       \* keys of this.connectors
    smSources,          \* Object.entries(configManager.getAllSourceConfigs()), in order
    smPc,               \* position of harvestAll(): "idle", "loop", "returned", "raised"
    smIdx,              \* index of the next source of the for loop
    smResults,          \* the local results
    smLog,              \* what happened to each source the loop reached, in order
    smWasInitialized,   \* whether the manager was initialized when harvestAll was called
    \* ---- InseeClient.request ----
    cMode,              \* the remote API: "any" answer, or "always429"
    cPc,                \* "limit", "send", "wait429", "catch", "backoff", "resolved", "rejected"
    cStack,             \* attempt of each running retryHandler.execute, outermost first
    cErr,               \* the error being thrown, or the one request() rejected with
    cSent,              \* HTTP requests sent (counted up to MaxSent)
    cLastWait,          \* the last suspension asked for, in ms
    \* ---- HealthManager ----
    hmStore,            \* the records saved to the collection source_health_checks
    hmLast,             \* the last checkSourceHealth call: its inputs, what it returned
                        \* and what it saved (health records, alerts to health_alerts)
    hmClean,            \* no persistence operation has failed so far
    hmChecks,           \* number of checkSourceHealth calls so far
    \* ---- SourceManager.initialize ----
    inInitialized,      \* this.initialized
    inConnectors,       \* keys of this.connectors
    inPc,               \* position of each caller's initialize(): "idle", "loading",
                        \* "persistence", "registering"
    inCur,              \* each caller's running call: this.initialized as it read it,
                        \* and the steps it has completed
    inHist,             \* the finished calls, in the order they finished
    inCalls,            \* number of initialize() calls so far
    \* ---- SourceManager.harvestSourceById ----
    hbInitialized,      \* this.initialized
    hbRegistry,         \* configManager.sourceConfigs (once loaded)
    hbLast,             \* the last harvestSourceById call: its argument, what it threw or
                        \* returned, and what it instantiated, requested and saved
    hbTotals,           \* connectors instantiated, requests issued, saves made and
                        \* 'source not found' failures so far
    hbCalls,            \* number of harvestSourceById calls so far
    \* ---- PersistenceManager ----
    pmStrategies,       \* this.strategies: name -> strategy object
    pmRegs,             \* the registerStrategy calls made, in order
    \* ---- configuration validation ----
    cvConfig,           \* the configuration document handed to the validator
    cvResult,           \* what the validator returned or threw
    \* ---- ConfigManager ----
    cmRegistry,         \* this.sourceConfigs: source id -> SourceConfig
    cmPc,               \* position of loadSourceConfigs(): "idle", "loop", "returned", "raised"
    cmIdx,              \* index of the next item of the listing of the config directory
    cmLog,              \* per directory loadSourceConfigs() reached: what it held and
                        \* whether loadSourceConfig threw
    cmLast,             \* the last loadSourceConfig call: the documents as read
    \* ---- MongoPersistence.save ----
    mpStore,            \* the documents of the collection, by unique key
    mpLast,             \* the last save call: its data, what it returned or threw and
                        \* the collection before it
    \* ---- InseeConnector.harvest: transform and save ----
    trHarvest,          \* the last harvest: the source's transform block, the payload
                        \* fetched and the data handed to persistenceManager.save
    \* ---- ConfigManager: environment interpolation ----
    evEnv,              \* process.env: variable name -> value, or unset
    evTree,             \* the documents of the config tree: global.json and the five
                        \* documents of one source directory
    evLoaded,           \* what loadConfiguration() returned or threw
    \* ---- ConfigManager: the registry and the config tree of one source ----
    rtTree,             \* the directory config/<sourceId>: absent, or the version each
                        \* document holds (0: no such file)
    rtRegistry,         \* this.sourceConfigs.get(sourceId): absent, or the entry
    rtPc,               \* per caller: the operation it runs, the await it is suspended
                        \* at and the locals of that operation
    rtOps,              \* number of operations started so far
    \* ---- the rate limiters of successive harvests ----
    hlClock,            \* Date.now(), in ms
    hlRpm,              \* connection rateLimit.requestsPerMinute of the sources
    hlHarvests,         \* the harvestSourceById calls made, in order: the source, the
                        \* RateLimiter of the client built for the call and the
                        \* position of the call
    hlSent,             \* the requests sent so far: the source and the time
    \* ---- HealthManager.getHealthSummary ----
    hsStore,            \* the records of the collection source_health_checks, oldest
                        \* first
    hsSummary,          \* the last getHealthSummary call: what it returned, and the
                        \* number of records the collection held
    pmLast              \* the last getStrategy/save/find/findOne/update/delete call, with
                        \* the number of registrations made before it

rlVars == <<clock, requestsPerMinute, requests, calls>>
rhVars == <<rhMaxAttempts, rhDelayMs, rhBackoff, rhPc, rhAttempt, rhLastError,
            rhDelays, rhOutcome, opLog>>
smVars == <<smInitialized, smConnectors, smSources, smPc, smIdx, smResults, smLog,
            smWasInitialized>>
clVars == <<cMode, cPc, cStack, cErr, cSent, cLastWait>>
hmVars == <<hmStore, hmLast, hmClean, hmChecks>>
inVars == <<inInitialized, inConnectors, inPc, inCur, inHist, inCalls>>
oldVars == <<rlVars, rhVars, smVars, clVars, hmVars>>
hbVars == <<hbInitialized, hbRegistry, hbLast, hbTotals, hbCalls>>
pmVars == <<pmStrategies, pmRegs, pmLast>>
cvVars == <<cvConfig, cvResult>>
cmVars == <<cmRegistry, cmPc, cmIdx, cmLog, cmLast>>
mpVars == <<mpStore, mpLast>>
trVars == <<trHarvest>>
midVars == <<inVars, hbVars, pmVars, cvVars, cmVars, mpVars, trVars>>
evVars == <<evEnv, evTree, evLoaded>>
rtVars == <<rtTree, rtRegistry, rtPc, rtOps>>
hlVars == <<hlClock, hlRpm, hlHarvests, hlSent>>
hsVars == <<hsStore, hsSummary>>
lateVars == <<evVars, rtVars, hlVars, hsVars>>
newVars == <<midVars, lateVars>>
vars == <<oldVars, newVars>>

\* What each specification leaves alone.
notRl == <<rhVars, smVars, clVars, hmVars, newVars>>
notRh == <<rlVars, smVars, clVars, hmVars, newVars>>
notSm == <<rlVars, rhVars, clVars, hmVars, newVars>>
\* the client owns a RetryHandler: its configuration is read, never written
notCl == <<rlVars, rhVars, smVars, hmVars, newVars>>
notHm == <<rlVars, rhVars, smVars, clVars, newVars>>
notIn == <<oldVars, hbVars, pmVars, cvVars, cmVars, mpVars, trVars, lateVars>>
notHb == <<oldVars, inVars, pmVars, cvVars, cmVars, mpVars, trVars, lateVars>>
notPm == <<oldVars, inVars, hbVars, cvVars, cmVars, mpVars, trVars, lateVars>>
notCv == <<oldVars, inVars, hbVars, pmVars, cmVars, mpVars, trVars, lateVars>>
notCm == <<oldVars, inVars, hbVars, pmVars, cvVars, mpVars, trVars, lateVars>>
notMp == <<oldVars, inVars, hbVars, pmVars, cvVars, cmVars, trVars, lateVars>>
notTr == <<oldVars, inVars, hbVars, pmVars, cvVars, cmVars, mpVars, lateVars>>
notEv == <<oldVars, midVars, rtVars, hlVars, hsVars>>
notRt == <<oldVars, midVars, evVars, hlVars, hsVars>>
notHl == <<oldVars, midVars, evVars, rtVars, hsVars>>
notHs == <<oldVars, midVars, evVars, rtVars, hlVars>>

NoValue == [kind |-> "none"]

(***************************************************************************)
(* RateLimiter                                                             *)
(***************************************************************************)
WindowMs == 60000
DefaultRequestsPerMinute == 30

\* Bounds of the RateLimiter model.
MaxRpmCfg == 2      \* config.requestsPerMinute ranges over 0..MaxRpmCfg
MaxCalls == 4       \* checkLimit() calls per behaviour
MaxTicks == 4       \* the clock advances at most this many half-windows
TickMs == WindowMs \div 2

\* constructor: this.requestsPerMinute = config.requestsPerMinute || 30
RateLimiterInit(cfgRpm) ==
    /\ requestsPerMinute = (IF cfgRpm = 0 THEN DefaultRequestsPerMinute ELSE cfgRpm)
    /\ requests = <<>>

\* this.requests.filter(req => now - req < 60000)
FilterWindow(reqs, now) == SelectSeq(reqs, LAMBDA req : now - req < WindowMs)

OverLimitOffByOne(reqs, rpm) == Len(reqs) > rpm
\* if (this.requests.length >= this.requestsPerMinute)
OverLimit(reqs, rpm) == Len(reqs) >= rpm

\* const waitTime = 60000 - (now - oldestRequest), oldestRequest = this.requests[0]
WaitTime(reqs, now) == WindowMs - (now - reqs[1])

\* A caller enters checkLimit(): the synchronous part up to the await, or up to
\* the push when the limit is not reached.
CheckLimit ==
    /\ Len(calls) < MaxCalls
    /\ LET now == clock
           kept == FilterWindow(requests, now)
       IN IF OverLimit(kept, requestsPerMinute)
          THEN /\ requests' = kept
               /\ calls' = Append(calls, [arrival |-> now, pc |-> "waiting",
                                           suspended |-> TRUE,
                                           wake |-> now + WaitTime(kept, now),
                                           permitAt |-> -1])
          ELSE /\ requests' = Append(kept, now)
               /\ calls' = Append(calls, [arrival |-> now, pc |-> "permitted",
                                           suspended |-> FALSE,
                                           wake |-> now,
                                           permitAt |-> now])
    /\ UNCHANGED <<clock, requestsPerMinute>>
    /\ UNCHANGED notRl

\* The setTimeout of wait(waitTime) fires; the caller pushes the `now` it read
\* on entry and checkLimit() returns.
ResumeAfterWait ==
    /\ \E i \in DOMAIN calls :
          /\ calls[i].pc = "waiting"
          /\ clock >= calls[i].wake
          /\ requests' = Append(requests, calls[i].arrival)
          /\ calls' = [calls EXCEPT ![i].pc = "permitted", ![i].permitAt = clock]
    /\ UNCHANGED <<clock, requestsPerMinute>>
    /\ UNCHANGED notRl

\* Time passes.
Tick ==
    /\ clock < MaxTicks * TickMs
    /\ clock' = clock + TickMs
    /\ UNCHANGED <<requestsPerMinute, requests, calls>>
    /\ UNCHANGED notRl

(***************************************************************************)
(* RetryHandler                                                            *)
(***************************************************************************)
DefaultMaxAttempts == 3
DefaultDelayMs == 1000
DefaultBackoffMultiplier == 2

\* Bounds of the RetryHandler model.
MaxAttemptsCfg == 2     \* config.maxAttempts ranges over 0..MaxAttemptsCfg
MaxBackoffCfg == 3      \* config.backoffMultiplier ranges over 0..MaxBackoffCfg

DelayCfgs == {0, 100}
NetworkError == 0       \* an error without error.response
ErrorStatuses == {NetworkError, 400, 404, 429, 499, 500, 503}
ResultValues == {"dataA", "dataB"}

\* What one invocation of operation() can do.
OpOutcomes ==
    [kind : {"ok"}, value : ResultValues, status : {200}]
        \cup [kind : {"error"}, value : {"none"}, status : ErrorStatuses]

RECURSIVE Pow(_, _)
\* Math.pow on naturals
Pow(b, e) == IF e = 0 THEN 1 ELSE b * Pow(b, e - 1)

\* constructor: config.x || default
RetryHandlerInit(cfgMax, cfgDelay, cfgBackoff) ==
    /\ rhMaxAttempts = (IF cfgMax = 0 THEN DefaultMaxAttempts ELSE cfgMax)
    /\ rhDelayMs = (IF cfgDelay = 0 THEN DefaultDelayMs ELSE cfgDelay)
    /\ rhBackoff = (IF cfgBackoff = 0 THEN DefaultBackoffMultiplier ELSE cfgBackoff)

NonRetryableFrom401(status) == status > 400 /\ status < 500 /\ status # 429
\* error.response?.status >= 400 && error.response?.status < 500 &&
\* error.response?.status !== 429
NonRetryable(status) == status >= 400 /\ status < 500 /\ status # 429

IsLastAttemptOffByOne(attempt, maxAttempts) == attempt > maxAttempts
\* if (attempt === this.maxAttempts)
IsLastAttempt(attempt, maxAttempts) == attempt = maxAttempts

BackoffDelayNoMinusOne(delayMs, backoff, attempt) == delayMs * Pow(backoff, attempt)
\* this.delayMs * Math.pow(this.backoffMultiplier, attempt - 1)
BackoffDelay(delayMs, backoff, attempt) == delayMs * Pow(backoff, attempt - 1)

\* One turn of the for loop of execute(): the loop test, the invocation of
\* operation() and the catch block up to the await of this.wait(delay).
RhAttempt ==
    /\ rhPc = "attempt"
    /\ IF rhAttempt > rhMaxAttempts
       THEN \* the loop ends: throw lastError
            /\ rhPc' = "thrown"
            /\ rhOutcome' = rhLastError
            /\ UNCHANGED <<rhLastError, rhDelays, opLog>>
       ELSE \E o \in OpOutcomes :
            LET err == [kind |-> "error", status |-> o.status, attempt |-> rhAttempt]
            IN /\ opLog' = Append(opLog, [kind |-> o.kind, status |-> o.status,
                                           value |-> o.value, attempt |-> rhAttempt])
               /\ IF o.kind = "ok"
                  THEN /\ rhPc' = "returned"
                       /\ rhOutcome' = [kind |-> "value", value |-> o.value]
                       /\ UNCHANGED <<rhLastError, rhDelays>>
                  ELSE /\ rhLastError' = err
                       /\ IF NonRetryable(o.status) \/ IsLastAttempt(rhAttempt, rhMaxAttempts)
                          THEN /\ rhPc' = "thrown"
                               /\ rhOutcome' = err
                               /\ UNCHANGED rhDelays
                          ELSE /\ rhPc' = "waiting"
                               /\ rhDelays' = Append(rhDelays,
                                      BackoffDelay(rhDelayMs, rhBackoff, rhAttempt))
                               /\ UNCHANGED rhOutcome
    /\ UNCHANGED <<rhMaxAttempts, rhDelayMs, rhBackoff, rhAttempt>>
    /\ UNCHANGED notRh

\* The setTimeout of this.wait(delay) fires: attempt++ and the loop goes on.
RhWake ==
    /\ rhPc = "waiting"
    /\ rhPc' = "attempt"
    /\ rhAttempt' = rhAttempt + 1
    /\ UNCHANGED <<rhMaxAttempts, rhDelayMs, rhBackoff, rhLastError, rhDelays,
                   rhOutcome, opLog>>
    /\ UNCHANGED notRh

(***************************************************************************)
(* SourceManager.harvestAll                                                *)
(***************************************************************************)
\* Bound of the SourceManager model.
MaxSources == 3     \* configured sources per behaviour

\* The source configs the registry can hold: id and type.
KnownSources ==
    { [id |-> "insee-sirene", type |-> "insee"],
      [id |-> "insee-bdm", type |-> "insee"],
      [id |-> "assemblee-votes", type |-> "assemblee"] }

\* registerConnectors(): this.connectors.set('insee', InseeConnector)
RegisteredConnectors == {"insee"}

\* What new ConnectorClass(...) followed by connector.harvest(options) can do.
HarvestOutcomes ==
    { [kind |-> "ok", message |-> "none"],
      [kind |-> "throw", message |-> "Request failed with status code 500"],
      [kind |-> "throw", message |-> "Cannot read properties of undefined"] }

\* Sequences without repetition of at most n source configs.
RECURSIVE SourceLists(_)
SourceLists(n) ==
    IF n = 0 THEN {<<>>}
    ELSE LET shorter == SourceLists(n - 1)
         IN shorter \cup
            { Append(l, c) : l \in {x \in shorter : Len(x) = n - 1},
                             c \in KnownSources }

DistinctIds(l) == \A i, j \in DOMAIN l : l[i].id = l[j].id => i = j

ConnectorNotFoundNever(connectors, type) == FALSE

\* getConnector(sourceType): throws when no class is registered for the type
ConnectorNotFound(connectors, type) == type \notin connectors

\* harvestSource(): the entry it returns on success
HarvestSourceEntry(sourceId) ==
    [sourceId |-> sourceId, success |-> TRUE, error |-> "none"]

CatchInHarvestAllRethrows(results, sourceId, message) ==
    [results |-> results, raised |-> TRUE]
\* the catch block of the loop of harvestAll(): results.push({sourceId,
\* timestamp, success: false, error: error.message})
CatchInHarvestAll(results, sourceId, message) ==
    [results |-> Append(results,
                    [sourceId |-> sourceId, success |-> FALSE, error |-> message]),
     raised |-> FALSE]

\* harvestAll() up to the loop: await this.ensureInitialized(), which calls
\* initialize() when the manager is not initialized; initialize() rethrows what
\* loading the configuration or the persistence connections throws.
SmHarvestAllStart ==
    /\ smPc = "idle"
    /\ smWasInitialized' = smInitialized
    /\ IF smInitialized
       THEN /\ smPc' = "loop"
            /\ UNCHANGED <<smInitialized, smConnectors>>
       ELSE \E initOk \in BOOLEAN :
            IF initOk
            THEN /\ smInitialized' = TRUE
                 /\ smConnectors' = RegisteredConnectors
                 /\ smPc' = "loop"
            ELSE /\ smPc' = "raised"
                 /\ UNCHANGED <<smInitialized, smConnectors>>
    /\ smIdx' = 1
    /\ smResults' = <<>>
    /\ UNCHANGED <<smSources, smLog>>
    /\ UNCHANGED notSm

\* One turn of the for loop: harvestSource() in the try, the push of its result
\* or the catch block.
SmHarvestNext ==
    /\ smPc = "loop"
    /\ smIdx <= Len(smSources)
    /\ LET src == smSources[smIdx] IN
       IF ConnectorNotFound(smConnectors, src.type)
       THEN LET message == "Connector not found for type: " \o src.type
                caught == CatchInHarvestAll(smResults, src.id, message)
            IN /\ smLog' = Append(smLog, [sourceId |-> src.id, kind |-> "lookup_failed",
                                           message |-> message])
               /\ smResults' = caught.results
               /\ smPc' = IF caught.raised THEN "raised" ELSE "loop"
       ELSE \E o \in HarvestOutcomes :
            IF o.kind = "ok"
            THEN /\ smLog' = Append(smLog, [sourceId |-> src.id, kind |-> "harvested",
                                             message |-> "none"])
                 /\ smResults' = Append(smResults, HarvestSourceEntry(src.id))
                 /\ smPc' = "loop"
            ELSE LET caught == CatchInHarvestAll(smResults, src.id, o.message)
                 IN /\ smLog' = Append(smLog, [sourceId |-> src.id, kind |-> "threw",
                                                message |-> o.message])
                    /\ smResults' = caught.results
                    /\ smPc' = IF caught.raised THEN "raised" ELSE "loop"
    /\ smIdx' = smIdx + 1
    /\ UNCHANGED <<smInitialized, smConnectors, smSources, smWasInitialized>>
    /\ UNCHANGED notSm

\* The loop is over: return results.
SmHarvestAllReturn ==
    /\ smPc = "loop"
    /\ smIdx > Len(smSources)
    /\ smPc' = "returned"
    /\ UNCHANGED <<smInitialized, smConnectors, smSources, smIdx, smResults, smLog,
                   smWasInitialized>>
    /\ UNCHANGED notSm

(***************************************************************************)
(* InseeClient.request with the response interceptor handleError           *)
(***************************************************************************)
DefaultRetryAfterSeconds == 60

\* Bounds of the client model.
MaxDepth == 3       \* nested retryHandler.execute calls told apart
MaxSent == 8        \* HTTP requests counted

NoError == [kind |-> "none", status |-> -1]

\* Values of the retry-after header of a 429 answer; 0 stands for no header.
RetryAfterHeaders == {0, 1}

\* const retryAfter = error.response.headers['retry-after'] || 60;
\* this.rateLimiter.wait(retryAfter * 1000)
RetryAfterMs(header) ==
    (IF header = 0 THEN DefaultRetryAfterSeconds ELSE header) * 1000

\* What the remote API can answer to one HTTP request.
Responses ==
    [status : {200} \cup (ErrorStatuses \ {429}), retryAfter : {0}]
        \cup [status : {429}, retryAfter : RetryAfterHeaders]

\* handleError starts a new retryHandler.retry(): one more execute, at attempt 1.
\* Levels beyond MaxDepth are not told apart; they occur only against a remote
\* API that answers 429 to everything, where no level ever returns.
PushExecute(stack) == IF Len(stack) < MaxDepth THEN Append(stack, 1) ELSE stack

Pop(stack) == SubSeq(stack, 1, Len(stack) - 1)
Top(stack) == stack[Len(stack)]

\* request(): await this.rateLimiter.checkLimit() resolves; then
\* this.retryHandler.execute(...) starts its first attempt.
ClCheckLimitPassed ==
    /\ cPc = "limit"
    /\ cPc' = "send"
    /\ cStack' = <<1>>
    /\ UNCHANGED <<cMode, cErr, cSent, cLastWait>>
    /\ UNCHANGED notCl

\* The HTTP request of the innermost operation (this.client.get, or
\* this.client.request(error.config) inside handleError's retry) is answered.
\* A 2xx answer resolves every enclosing level; an error goes through the
\* response interceptor handleError: a 429 waits retry-after, anything else is
\* rethrown into the catch of the innermost execute.
ClResponse ==
    /\ cPc = "send"
    /\ \E r \in Responses :
          /\ cMode = "always429" => r.status = 429
          /\ (cMode = "any" /\ r.status = 429) => Len(cStack) < MaxDepth
          /\ IF r.status = 200
             THEN /\ cPc' = "resolved"
                  /\ UNCHANGED <<cErr, cLastWait>>
             ELSE IF r.status = 429
             THEN /\ cPc' = "wait429"
                  /\ cLastWait' = RetryAfterMs(r.retryAfter)
                  /\ UNCHANGED cErr
             ELSE /\ cPc' = "catch"
                  /\ cErr' = [kind |-> "error", status |-> r.status]
                  /\ UNCHANGED cLastWait
    /\ cSent' = IF cSent < MaxSent THEN cSent + 1 ELSE cSent
    /\ UNCHANGED <<cMode, cStack>>
    /\ UNCHANGED notCl

\* handleError after the wait: return this.retryHandler.retry(() =>
\* this.client.request(error.config)), a new execute whose operation sends the
\* request again through the same intercepted client.
ClRetryAfterElapsed ==
    /\ cPc = "wait429"
    /\ cStack' = PushExecute(cStack)
    /\ cPc' = "send"
    /\ UNCHANGED <<cMode, cErr, cSent, cLastWait>>
    /\ UNCHANGED notCl

\* The catch block of the innermost execute: rethrow (to the enclosing
\* handleError, hence to the enclosing execute's catch, or to the caller of
\* request()), or wait before the next attempt.
ClCatch ==
    /\ cPc = "catch"
    /\ IF NonRetryable(cErr.status) \/ IsLastAttempt(Top(cStack), rhMaxAttempts)
       THEN /\ cStack' = Pop(cStack)
            /\ cPc' = IF Len(cStack) = 1 THEN "rejected" ELSE "catch"
            /\ UNCHANGED cLastWait
       ELSE /\ cPc' = "backoff"
            /\ cLastWait' = BackoffDelay(rhDelayMs, rhBackoff, Top(cStack))
            /\ UNCHANGED cStack
    /\ UNCHANGED <<cMode, cErr, cSent>>
    /\ UNCHANGED notCl

\* The wait between two attempts is over: attempt++.
ClBackoffElapsed ==
    /\ cPc = "backoff"
    /\ cStack' = [cStack EXCEPT ![Len(cStack)] = @ + 1]
    /\ cPc' = "send"
    /\ UNCHANGED <<cMode, cErr, cSent, cLastWait>>
    /\ UNCHANGED notCl

(***************************************************************************)
(* HealthManager.checkSourceHealth                                         *)
(***************************************************************************)
RecentFailuresLimit == 10

\* Bounds of the HealthManager model.
MaxChecks == 3      \* checkSourceHealth calls per behaviour
MaxThreshold == 2   \* thresholds.consecutiveFailures ranges over 1..MaxThreshold

HealthSources ==
    { [id |-> "insee-sirene", type |-> "insee"],
      [id |-> "assemblee-votes", type |-> "assemblee"] }

ResponseTimes == {100, 900}

\* The health block of the sourceConfig handed to checkSourceHealth:
\*   health   "absent" (no config or no health block), "disabled", "enabled"
\*   endpoint whether healthConfig.endpoints has the entry the probe looks up
\*   alerts   "off" (no alerts block or alerts.enabled false), "no_thresholds"
\*            (enabled, thresholds missing), "on"
\*   maxRt    thresholds.responseTime, 0 when unset
\*   maxFails thresholds.consecutiveFailures
HealthCfgs ==
    [health : {"absent", "disabled"}, endpoint : {FALSE}, alerts : {"off"},
     maxRt : {0}, maxFails : {1}]
    \cup [health : {"enabled"}, endpoint : BOOLEAN, alerts : {"off", "no_thresholds"},
          maxRt : {0}, maxFails : {1}]
    \cup [health : {"enabled"}, endpoint : BOOLEAN, alerts : {"on"},
          maxRt : {0, 500}, maxFails : 1..MaxThreshold]

\* What the probe request does: the answer has the expected status, another
\* status, or the request (or building the client) throws.
ProbeOutcomes == {"match", "mismatch", "throw"}

Healthy == [isHealthy |-> TRUE, status |-> "healthy"]
UnexpectedStatus == [isHealthy |-> FALSE, status |-> "unexpected_status"]
ConnectionError == [isHealthy |-> FALSE, status |-> "connection_error"]
NoEndpointConfig == [isHealthy |-> FALSE, status |-> "no_endpoint_config"]

\* checkInseeHealth: everything runs in a try whose catch returns
\* connection_error; InseeClient has no makeRequest method, so the call of
\* client.makeRequest throws whenever it is reached.
CheckInseeHealth(cfg, probe) ==
    IF probe = "throw" THEN ConnectionError     \* new InseeClient(...) threw
    ELSE IF ~cfg.endpoint THEN NoEndpointConfig
    ELSE ConnectionError

\* checkGenericHealth: the axios request classified by response.status
CheckGenericHealth(cfg, probe) ==
    IF ~cfg.endpoint THEN NoEndpointConfig
    ELSE IF probe = "throw" THEN ConnectionError
    ELSE IF probe = "mismatch" THEN UnexpectedStatus
    ELSE Healthy

StoreHealthCheckRethrows(store, record, saveFails) ==
    [store |-> IF saveFails THEN store ELSE Append(store, record), threw |-> saveFails]
\* storeHealthCheck: persistenceManager.save in a try whose catch only logs
StoreHealthCheck(store, record, saveFails) ==
    [store |-> IF saveFails THEN store ELSE Append(store, record), threw |-> FALSE]

\* getRecentFailures: find({sourceId, isHealthy: false}, {limit, sort}) in a try
\* whose catch returns []
GetRecentFailures(store, sourceId, limit, findFails) ==
    IF findFails THEN <<>>
    ELSE LET failures == SelectSeq(store,
                            LAMBDA r : r.sourceId = sourceId /\ ~r.isHealthy)
         IN IF Len(failures) <= limit THEN failures
            ELSE SubSeq(failures, Len(failures) - limit + 1, Len(failures))

\* triggerAlert: persistenceManager.save('health_alerts', alert) in a try whose
\* catch only logs
TriggerAlert(alerts, sourceId, alertType, alertSaveFails) ==
    IF alertSaveFails THEN alerts
    ELSE Append(alerts, [sourceId |-> sourceId, type |-> alertType])

\* checkAlerts: the whole body runs in a try whose catch only logs; reading
\* thresholds.responseTime throws when alertConfig.thresholds is missing.
CheckAlerts(store, alerts, sourceId, status, cfg, findFails, alertSaveFails) ==
    IF cfg.alerts = "no_thresholds"
    THEN [alerts |-> alerts, triggered |-> {}, threw |-> FALSE]
    ELSE LET slow == cfg.maxRt # 0 /\ status.responseTime > cfg.maxRt
             afterRt == IF slow THEN TriggerAlert(alerts, sourceId,
                                        "response_time_exceeded", alertSaveFails)
                        ELSE alerts
             recent == GetRecentFailures(store, sourceId, RecentFailuresLimit, findFails)
             failing == ~status.isHealthy /\ Len(recent) >= cfg.maxFails
             afterCf == IF failing THEN TriggerAlert(afterRt, sourceId,
                                           "consecutive_failures", alertSaveFails)
                        ELSE afterRt
         IN [alerts |-> afterCf,
             triggered |-> (IF slow THEN {"response_time_exceeded"} ELSE {})
                              \cup (IF failing THEN {"consecutive_failures"} ELSE {}),
             threw |-> FALSE]

\* The two tests at the head of checkSourceHealth: `!sourceConfig ||
\* !sourceConfig.health`, and `!healthConfig.enabled`.
HasHealthConfig(cfg) == cfg.health # "absent"

HealthChecksEnabledAlways(cfg) == TRUE

HealthChecksEnabled(cfg) == cfg.health = "enabled"

\* checkSourceHealth(sourceId, sourceConfig, options), the whole call. The
\* result gives the health collection after the call, whether a persistence
\* operation failed during it, and a description of the call: the path taken,
\* the probe's verdict, what was returned or raised, the number of health
\* records saved, the alerts triggered and the alerts saved to health_alerts
\* (a collection the manager only ever appends to).
CheckSourceHealth(store, src, cfg, probe, rt, saveFails, findFails, alertSaveFails) ==
    LET base == [called |-> TRUE, sourceId |-> src.id, health |-> cfg.health,
                 alerts |-> cfg.alerts, maxFails |-> cfg.maxFails]
    IN
    IF ~HasHealthConfig(cfg)
    THEN [store |-> store, failed |-> FALSE,
          last |-> base @@ [path |-> "no_config", probe |-> NoValue, raised |-> FALSE,
                            returned |-> [sourceId |-> src.id, isHealthy |-> FALSE,
                                          status |-> "no_config"],
                            saved |-> 0, triggered |-> {},
                            savedAlerts |-> <<>>]]
    ELSE IF ~HealthChecksEnabled(cfg)
    THEN [store |-> store, failed |-> FALSE,
          last |-> base @@ [path |-> "disabled", probe |-> NoValue, raised |-> FALSE,
                            returned |-> [sourceId |-> src.id, isHealthy |-> TRUE,
                                          status |-> "disabled"],
                            saved |-> 0, triggered |-> {},
                            savedAlerts |-> <<>>]]
    ELSE
    LET healthResult == IF src.type = "insee" THEN CheckInseeHealth(cfg, probe)
                        ELSE CheckGenericHealth(cfg, probe)
        healthStatus == [sourceId |-> src.id, isHealthy |-> healthResult.isHealthy,
                         status |-> healthResult.status, responseTime |-> rt]
        record == [sourceId |-> src.id, isHealthy |-> healthResult.isHealthy,
                   status |-> healthResult.status]
        stored == StoreHealthCheck(store, record, saveFails)
        alerting == cfg.alerts # "off"
        checked == IF alerting /\ ~stored.threw
                   THEN CheckAlerts(stored.store, <<>>, src.id, healthStatus, cfg,
                                    findFails, alertSaveFails)
                   ELSE [alerts |-> <<>>, triggered |-> {}, threw |-> FALSE]
        failed == \/ saveFails
                  \/ cfg.alerts = "on" /\ ~healthResult.isHealthy /\ findFails
                  \/ checked.triggered # {} /\ alertSaveFails
    IN
    IF ~stored.threw /\ ~checked.threw
    THEN [store |-> stored.store, failed |-> failed,
          last |-> base @@ [path |-> "probed", probe |-> healthResult, raised |-> FALSE,
                            returned |-> [sourceId |-> src.id,
                                          isHealthy |-> healthStatus.isHealthy,
                                          status |-> healthStatus.status],
                            saved |-> Len(stored.store) - Len(store),
                            triggered |-> checked.triggered,
                            savedAlerts |-> checked.alerts]]
    ELSE \* the outer catch: errorStatus is stored and returned
    LET errorRecord == [sourceId |-> src.id, isHealthy |-> FALSE, status |-> "error"]
        storedError == StoreHealthCheck(stored.store, errorRecord, saveFails)
    IN [store |-> storedError.store, failed |-> failed,
        last |-> base @@ [path |-> "error", probe |-> healthResult,
                          raised |-> storedError.threw,
                          returned |-> IF storedError.threw THEN NoValue ELSE errorRecord,
                          saved |-> Len(storedError.store) - Len(store),
                          triggered |-> checked.triggered,
                          savedAlerts |-> checked.alerts]]

\* The inputs of one call: the source, its health block, what the probe does,
\* the elapsed time, and which persistence operations fail (saving the health
\* record, finding the recent failures, saving an alert). An input the call
\* never consults is held at one value.
HealthInputs ==
    { i \in [src : HealthSources, cfg : HealthCfgs, probe : ProbeOutcomes,
              rt : ResponseTimes, saveFails : BOOLEAN, findFails : BOOLEAN,
              alertSaveFails : BOOLEAN] :
        /\ i.cfg.health # "enabled" => (i.probe = "match" /\ ~i.saveFails)
        /\ (i.src.type = "insee" \/ ~i.cfg.endpoint) => i.probe # "mismatch"
        /\ (i.src.type # "insee" /\ ~i.cfg.endpoint) => i.probe = "match"
        /\ (i.cfg.alerts # "on" \/ i.cfg.maxRt = 0) => i.rt = 100
        /\ i.cfg.alerts # "on" => (~i.findFails /\ ~i.alertSaveFails) }

\* A caller runs checkSourceHealth.
HmCheckSourceHealth ==
    /\ hmChecks < MaxChecks
    /\ \E i \in HealthInputs :
          LET r == CheckSourceHealth(hmStore, i.src, i.cfg, i.probe, i.rt,
                                     i.saveFails, i.findFails, i.alertSaveFails)
          IN /\ hmStore' = r.store
             /\ hmLast' = r.last
             /\ hmClean' = (hmClean /\ ~r.failed)
    /\ hmChecks' = hmChecks + 1
    /\ UNCHANGED notHm

(***************************************************************************)
(* Initial states                                                          *)
(***************************************************************************)
RlIdle ==
    /\ clock = 0
    /\ calls = <<>>
    /\ RateLimiterInit(1)

RhIdle ==
    /\ RetryHandlerInit(1, 0, 0)
    /\ rhPc = "idle"
    /\ rhAttempt = 1
    /\ rhLastError = NoValue
    /\ rhDelays = <<>>
    /\ rhOutcome = NoValue
    /\ opLog = <<>>

HmIdle ==
    /\ hmStore = <<>>
    /\ hmLast = [called |-> FALSE]
    /\ hmClean = TRUE
    /\ hmChecks = 0

ClIdle ==
    /\ cMode = "any"
    /\ cPc = "idle"
    /\ cStack = <<>>
    /\ cErr = NoError
    /\ cSent = 0
    /\ cLastWait = 0

SmIdle ==
    /\ smInitialized = FALSE
    /\ smConnectors = {}
    /\ smSources = <<>>
    /\ smPc = "idle"
    /\ smIdx = 1
    /\ smResults = <<>>
    /\ smLog = <<>>
    /\ smWasInitialized = FALSE

\* The callers of SourceManager.initialize(): the command line and the harvest
\* entry points that go through ensureInitialized().
Callers == {"cli", "harvest"}

InIdle ==
    /\ inInitialized = FALSE
    /\ inConnectors = {}
    /\ inPc = [c \in Callers |-> "idle"]
    /\ inCur = [c \in Callers |-> NoValue]
    /\ inHist = <<>>
    /\ inCalls = 0

HbIdle ==
    /\ hbInitialized = FALSE
    /\ hbRegistry = {}
    /\ hbLast = [called |-> FALSE]
    /\ hbTotals = [instantiated |-> 0, requests |-> 0, saved |-> 0, notFound |-> 0]
    /\ hbCalls = 0

PmIdle ==
    /\ pmStrategies = <<>>
    /\ pmRegs = <<>>
    /\ pmLast = [called |-> FALSE]

CvIdle ==
    /\ cvConfig = NoValue
    /\ cvResult = NoValue

CmIdle ==
    /\ cmRegistry = <<>>
    /\ cmPc = "idle"
    /\ cmIdx = 1
    /\ cmLog = <<>>
    /\ cmLast = [called |-> FALSE]

MpIdle ==
    /\ mpStore = {}
    /\ mpLast = [called |-> FALSE]

TrIdle == trHarvest = [called |-> FALSE]

OldIdle == RlIdle /\ RhIdle /\ SmIdle /\ ClIdle /\ HmIdle
EvIdle ==
    /\ evEnv = <<>>
    /\ evTree = <<>>
    /\ evLoaded = [called |-> FALSE]

MidIdle == InIdle /\ HbIdle /\ PmIdle /\ CvIdle /\ CmIdle /\ MpIdle /\ TrIdle
\* The callers of addSourceConfig, updateSourceConfig and removeSourceConfig.
RtCallers == {"first", "second"}

RtIdle ==
    /\ rtTree = [exists |-> FALSE]
    /\ rtRegistry = [present |-> FALSE]
    /\ rtPc = [c \in RtCallers |-> [op |-> "idle"]]
    /\ rtOps = 0

HlIdle ==
    /\ hlClock = 0
    /\ hlRpm = DefaultRequestsPerMinute
    /\ hlHarvests = <<>>
    /\ hlSent = <<>>

HsIdle ==
    /\ hsStore = <<>>
    /\ hsSummary = [called |-> FALSE]

LateIdle == EvIdle /\ RtIdle /\ HlIdle /\ HsIdle
NewIdle == MidIdle /\ LateIdle

InitRate ==
    /\ clock = 0
    /\ calls = <<>>
    /\ \E cfgRpm \in 0..MaxRpmCfg : RateLimiterInit(cfgRpm)
    /\ RhIdle
    /\ SmIdle
    /\ ClIdle
    /\ HmIdle
    /\ NewIdle

InitRetry ==
    /\ \E cfgMax \in 0..MaxAttemptsCfg, cfgDelay \in DelayCfgs,
          cfgBackoff \in 0..MaxBackoffCfg :
            RetryHandlerInit(cfgMax, cfgDelay, cfgBackoff)
    /\ rhPc = "attempt"
    /\ rhAttempt = 1
    /\ rhLastError = NoValue
    /\ rhDelays = <<>>
    /\ rhOutcome = NoValue
    /\ opLog = <<>>
    /\ RlIdle
    /\ SmIdle
    /\ ClIdle
    /\ HmIdle
    /\ NewIdle

\* The manager is either fresh or already initialized (initialize() has set
\* initialized and registered the connectors); the registry holds any list of
\* distinct sources.
InitHarvest ==
    /\ smInitialized \in BOOLEAN
    /\ smConnectors = (IF smInitialized THEN RegisteredConnectors ELSE {})
    /\ smSources \in {l \in SourceLists(MaxSources) : DistinctIds(l)}
    /\ smPc = "idle"
    /\ smIdx = 1
    /\ smResults = <<>>
    /\ smLog = <<>>
    /\ smWasInitialized = FALSE
    /\ RlIdle
    /\ RhIdle
    /\ ClIdle
    /\ HmIdle
    /\ NewIdle

\* A client built by the constructor (its RetryHandler from config.retry || {})
\* on which request() has just been called.
InitClient ==
    /\ \E cfgMax \in 0..MaxAttemptsCfg, cfgDelay \in DelayCfgs,
          cfgBackoff \in 0..MaxBackoffCfg :
            RetryHandlerInit(cfgMax, cfgDelay, cfgBackoff)
    /\ rhPc = "idle"
    /\ rhAttempt = 1
    /\ rhLastError = NoValue
    /\ rhDelays = <<>>
    /\ rhOutcome = NoValue
    /\ opLog = <<>>
    /\ cMode \in {"any", "always429"}
    /\ cPc = "limit"
    /\ cStack = <<>>
    /\ cErr = NoError
    /\ cSent = 0
    /\ cLastWait = 0
    /\ RlIdle
    /\ SmIdle
    /\ HmIdle
    /\ NewIdle

\* A HealthManager built by the constructor; both collections are empty.
InitHealth ==
    /\ HmIdle
    /\ RlIdle
    /\ RhIdle
    /\ SmIdle
    /\ ClIdle
    /\ NewIdle

NextRate == CheckLimit \/ ResumeAfterWait \/ Tick
NextRetry == RhAttempt \/ RhWake
NextHarvest == SmHarvestAllStart \/ SmHarvestNext \/ SmHarvestAllReturn

SpecRate == InitRate /\ [][NextRate]_vars
SpecRetry == InitRetry /\ [][NextRetry]_vars
SpecHarvest == InitHarvest /\ [][NextHarvest]_vars

NextClient ==
    ClCheckLimitPassed \/ ClResponse \/ ClRetryAfterElapsed \/ ClCatch \/ ClBackoffElapsed
SpecClient == InitClient /\ [][NextClient]_vars
\* Every suspension of request() ends: the timers of wait() fire, the rate
\* limiter lets the call through and every HTTP request is answered or times
\* out (timeout: 30000).
SpecClientFair == SpecClient /\ WF_vars(NextClient)

(***************************************************************************)
(* Claims about InseeClient.request (checked under SpecClientFair)         *)
(***************************************************************************)
\* C7: against a remote API that answers 429 to every request, request()
\* eventually terminates by rejecting with an error whose response status is 429.
C7_RateLimitedCallTerminates ==
    (cMode = "always429" /\ cPc = "limit") ~> (cPc = "rejected" /\ cErr.status = 429)

\* No 429 error ever leaves request(): handleError turns each one into a wait
\* and a nested retry.
ClNever429Surfaced == ~(cPc = "rejected" /\ cErr.status = 429)

NextHealth == HmCheckSourceHealth
SpecHealth == InitHealth /\ [][NextHealth]_vars

(***************************************************************************)
(* Claims about HealthManager (checked under SpecHealth)                   *)
(***************************************************************************)
\* C8: every call of checkSourceHealth, whatever its outcome, saves exactly one
\* health record (stated for the runs in which no persistence operation fails).
C8_EveryCheckStored ==
    (hmLast.called /\ hmClean) => hmLast.saved = 1

\* C9: checkSourceHealth never raises: it returns an object carrying sourceId,
\* isHealthy and status, and when the probe ran, the isHealthy and status it
\* returns are the probe's, whatever failed while storing the record or while
\* evaluating or storing alerts.
C9_HealthCheckNeverRaises ==
    hmLast.called =>
        /\ ~hmLast.raised
        /\ {"sourceId", "isHealthy", "status"} \subseteq DOMAIN hmLast.returned
        /\ hmLast.returned.sourceId = hmLast.sourceId
        /\ hmLast.returned.isHealthy \in BOOLEAN
        /\ hmLast.path \notin {"no_config", "disabled"} =>
              /\ hmLast.returned.isHealthy = hmLast.probe.isHealthy
              /\ hmLast.returned.status = hmLast.probe.status

\* Witness of C9: the probe failed, saving the health record failed and the
\* alert evaluation failed (thresholds missing), and the call returned
\* connection_error.
C9_Witness ==
    /\ hmLast.called
    /\ hmLast.path = "probed"
    /\ hmLast.probe.status = "connection_error"
    /\ hmLast.saved = 0
    /\ hmLast.alerts = "no_thresholds"
    /\ hmLast.returned.status = "connection_error"

RECURSIVE TrailingUnhealthyRun(_, _)
\* Length of the unbroken run of unhealthy records that ends the records of a
\* source.
TrailingUnhealthyRun(store, sourceId) ==
    IF store = <<>> THEN 0
    ELSE LET r == store[Len(store)]
             rest == SubSeq(store, 1, Len(store) - 1)
         IN IF r.sourceId # sourceId THEN TrailingUnhealthyRun(rest, sourceId)
            ELSE IF r.isHealthy THEN 0
            ELSE 1 + TrailingUnhealthyRun(rest, sourceId)

\* C10: with alerting enabled, a check triggers a consecutive_failures alert
\* exactly when the records of its source end with an unbroken run of unhealthy
\* records, the current one included, of length at least
\* thresholds.consecutiveFailures (stated for the runs in which no persistence
\* operation fails).
C10_ConsecutiveFailuresAlert ==
    (hmLast.called /\ hmClean /\ hmLast.path = "probed" /\ hmLast.alerts = "on") =>
        ("consecutive_failures" \in hmLast.triggered
            <=> TrailingUnhealthyRun(hmStore, hmLast.sourceId) >= hmLast.maxFails)

(***************************************************************************)
(* Claims about RateLimiter (checked under SpecRate)                       *)
(***************************************************************************)
Permitted(i) == calls[i].pc = "permitted"

\* The calls permitted in the 60-second interval that starts when call i is permitted.
PermittedInWindowFrom(i) ==
    {j \in DOMAIN calls : /\ Permitted(j)
                          /\ calls[j].permitAt >= calls[i].permitAt
                          /\ calls[j].permitAt < calls[i].permitAt + WindowMs}

\* C2: the number of checkLimit calls permitted inside any 60-second interval
\* never exceeds requestsPerMinute.
C2_SlidingWindowCap ==
    \A i \in DOMAIN calls :
        Permitted(i) => Cardinality(PermittedInWindowFrom(i)) <= requestsPerMinute

\* The earlier calls that arrived at the same time as call i and were permitted
\* without suspension.
UnsuspendedAtSameTimeBefore(i) ==
    {j \in 1..(i - 1) : calls[j].arrival = calls[i].arrival /\ ~calls[j].suspended}

\* C3: the first requestsPerMinute calls are permitted without suspension (at
\* their arrival time); a call arriving at t0 after requestsPerMinute calls were
\* permitted at t0 is suspended, and is permitted only once 60 seconds have
\* elapsed since t0.
C3_ExtraCallWaitsFullWindow ==
    \A i \in DOMAIN calls :
        /\ i <= requestsPerMinute => ~calls[i].suspended
        /\ ~calls[i].suspended => (Permitted(i) /\ calls[i].permitAt = calls[i].arrival)
        /\ Cardinality(UnsuspendedAtSameTimeBefore(i)) >= requestsPerMinute
              => /\ calls[i].suspended
                 /\ Permitted(i) => calls[i].permitAt >= calls[i].arrival + WindowMs

\* Witness of C3: with requestsPerMinute = 2, two calls permitted at t0 and a
\* third one, arrived at t0, permitted exactly 60 seconds later.
C3_Witness ==
    /\ requestsPerMinute = 2
    /\ \E i \in DOMAIN calls :
          /\ Cardinality(UnsuspendedAtSameTimeBefore(i)) = 2
          /\ Permitted(i)
          /\ calls[i].permitAt = calls[i].arrival + WindowMs

(***************************************************************************)
(* Claims about RetryHandler (checked under SpecRetry)                     *)
(***************************************************************************)
\* 5xx, network errors and 429
RetryableFailure(o) ==
    /\ o.kind = "error"
    /\ (o.status = NetworkError \/ o.status = 429 \/ o.status >= 500)

\* an HTTP status in [400,500) other than 429
ClientFailure(o) ==
    /\ o.kind = "error"
    /\ o.status >= 400 /\ o.status < 500 /\ o.status # 429

ErrorOf(o) == [kind |-> "error", status |-> o.status, attempt |-> o.attempt]

FirstFailuresRetryable(k) == \A i \in 1..k : RetryableFailure(opLog[i])

\* C4: when the operation fails with a retryable error on its first k attempts,
\* k < maxAttempts, execute goes on to attempt k+1; when that attempt succeeds,
\* execute returns its result after exactly k+1 invocations, and the i-th
\* suspension lasted delayMs * backoffMultiplier^(i-1).
C4_RetryUntilSuccess ==
    LET n == Len(opLog) IN
    /\ (n < rhMaxAttempts /\ FirstFailuresRetryable(n) /\ rhPc # "idle")
          => rhPc \in {"attempt", "waiting"}
    /\ (n >= 1 /\ opLog[n].kind = "ok" /\ FirstFailuresRetryable(n - 1))
          => /\ rhPc = "returned"
             /\ rhOutcome = [kind |-> "value", value |-> opLog[n].value]
             /\ n - 1 < rhMaxAttempts
             /\ Len(rhDelays) = n - 1
             /\ \A i \in 1..(n - 1) : rhDelays[i] = rhDelayMs * Pow(rhBackoff, i - 1)

\* Witness of C4: two retryable failures, then success, with a backoff
\* multiplier above 1.
C4_Witness ==
    /\ rhPc = "returned"
    /\ Len(opLog) = 3
    /\ opLog[1].status = 500
    /\ opLog[2].status = 429
    /\ rhBackoff > 1
    /\ Len(rhDelays) = 2

\* C5: when an invocation fails with a status in [400,500) other than 429,
\* execute throws that same error at once: no further invocation, no backoff
\* suspension after it; as the first attempt, the operation ran exactly once.
C5_ClientErrorNotRetried ==
    LET n == Len(opLog) IN
    (n >= 1 /\ ClientFailure(opLog[n]))
        => /\ rhPc = "thrown"
           /\ rhOutcome = ErrorOf(opLog[n])
           /\ Len(rhDelays) = n - 1

\* Witness of C5: a 404 on the first attempt, thrown after one invocation.
C5_Witness ==
    /\ rhPc = "thrown"
    /\ Len(opLog) = 1
    /\ opLog[1].status = 404
    /\ rhMaxAttempts > 1

\* C6: the operation is invoked at most maxAttempts times; when all maxAttempts
\* attempts failed with a retryable error, execute has thrown the error of the
\* last attempt, after maxAttempts - 1 suspensions (none after the last one).
C6_AtMostMaxAttempts ==
    /\ Len(opLog) <= rhMaxAttempts
    /\ (rhPc # "idle" /\ Len(opLog) = rhMaxAttempts
            /\ FirstFailuresRetryable(rhMaxAttempts))
          => /\ rhPc = "thrown"
             /\ rhOutcome = ErrorOf(opLog[rhMaxAttempts])
             /\ Len(rhDelays) = rhMaxAttempts - 1

\* Witness of C6: three failed attempts with maxAttempts = 3.
C6_Witness ==
    /\ rhPc = "thrown"
    /\ rhMaxAttempts = 3
    /\ Len(opLog) = 3
    /\ opLog[3].status = 503

\* C11: a call of checkSourceHealth on a SourceConfig without a health block
\* returns isHealthy = false with status no_config, and on a SourceConfig
\* whose health.enabled is false returns isHealthy = true with status
\* disabled; in both cases no probe is made and no alert is evaluated.
C11_NoConfigAndDisabledAreTerminal ==
    hmLast.called =>
        /\ hmLast.health = "absent" =>
              /\ ~hmLast.raised
              /\ hmLast.returned = [sourceId |-> hmLast.sourceId, isHealthy |-> FALSE,
                                    status |-> "no_config"]
              /\ hmLast.probe = NoValue
              /\ hmLast.triggered = {} /\ hmLast.savedAlerts = <<>>
        /\ hmLast.health = "disabled" =>
              /\ ~hmLast.raised
              /\ hmLast.returned = [sourceId |-> hmLast.sourceId, isHealthy |-> TRUE,
                                    status |-> "disabled"]
              /\ hmLast.probe = NoValue
              /\ hmLast.triggered = {} /\ hmLast.savedAlerts = <<>>

\* A call on a disabled health block made after an earlier probed call.
C11_Witness ==
    /\ hmLast.called /\ hmLast.health = "disabled" /\ hmLast.path = "disabled"
    /\ hmChecks >= 2 /\ Len(hmStore) >= 1

(***************************************************************************)
(* SourceManager.initialize (src/src/sources/index.js)                     *)
(***************************************************************************)
\* Bound on the number of initialize() calls
MaxInitCalls == 3

\* The steps of initialize(), as the code orders them.
InitializeSteps == <<"loadConfiguration", "initializePersistence", "registerConnectors">>

\* A finished call.
InitCallRecord(c, cur, outcome) ==
    [caller |-> c, sawInitialized |-> cur.sawInitialized, steps |-> cur.steps,
     outcome |-> outcome]

InitializedGuardMissing(initialized) == FALSE

\* `if (this.initialized) return;`
InitializedGuard(initialized) == initialized

\* initialize() is called: it returns at once when this.initialized is set, and
\* otherwise runs up to the first await, on configManager.loadConfiguration().
InInitializeCall(c) ==
    /\ inPc[c] = "idle"
    /\ inCalls < MaxInitCalls
    /\ inCalls' = inCalls + 1
    /\ LET cur == [sawInitialized |-> inInitialized, steps |-> <<>>]
       IN IF InitializedGuard(inInitialized)
          THEN /\ inHist' = Append(inHist, InitCallRecord(c, cur, "returned"))
               /\ UNCHANGED <<inPc, inCur>>
          ELSE /\ inPc' = [inPc EXCEPT ![c] = "loading"]
               /\ inCur' = [inCur EXCEPT ![c] = cur]
               /\ UNCHANGED inHist
    /\ UNCHANGED <<inInitialized, inConnectors>>
    /\ UNCHANGED notIn

\* The catch block of initialize(): the error is logged and thrown again.
InRaise(c) ==
    /\ inHist' = Append(inHist, InitCallRecord(c, inCur[c], "raised"))
    /\ inPc' = [inPc EXCEPT ![c] = "idle"]
    /\ inCur' = [inCur EXCEPT ![c] = NoValue]

\* loadConfiguration() settles; on success the call goes on to
\* PersistenceManager.getInstance() and awaits persistenceManager.initialize().
InLoadConfigurationSettled(c) ==
    /\ inPc[c] = "loading"
    /\ \E ok \in BOOLEAN :
          IF ok
          THEN /\ inPc' = [inPc EXCEPT ![c] = "persistence"]
               /\ inCur' = [inCur EXCEPT ![c].steps = Append(@, InitializeSteps[1])]
               /\ UNCHANGED inHist
          ELSE InRaise(c)
    /\ UNCHANGED <<inInitialized, inConnectors, inCalls>>
    /\ UNCHANGED notIn

\* persistenceManager.initialize() settles; on success registerConnectors() is
\* called, whose body (connectors.set('insee', ...)) runs before the await on
\* it suspends the call.
InPersistenceSettled(c) ==
    /\ inPc[c] = "persistence"
    /\ \E ok \in BOOLEAN :
          IF ok
          THEN /\ inPc' = [inPc EXCEPT ![c] = "registering"]
               /\ inCur' = [inCur EXCEPT ![c].steps = Append(@, InitializeSteps[2])]
               /\ inConnectors' = inConnectors \cup RegisteredConnectors
               /\ UNCHANGED inHist
          ELSE /\ InRaise(c)
               /\ UNCHANGED inConnectors
    /\ UNCHANGED <<inInitialized, inCalls>>
    /\ UNCHANGED notIn

\* The await on registerConnectors() resumes: this.initialized = true, and the
\* call returns.
InRegisterConnectorsSettled(c) ==
    /\ inPc[c] = "registering"
    /\ inInitialized' = TRUE
    /\ inHist' = Append(inHist,
                        InitCallRecord(c, [inCur[c] EXCEPT !.steps = Append(@, InitializeSteps[3])],
                                       "returned"))
    /\ inPc' = [inPc EXCEPT ![c] = "idle"]
    /\ inCur' = [inCur EXCEPT ![c] = NoValue]
    /\ UNCHANGED <<inConnectors, inCalls>>
    /\ UNCHANGED notIn

\* A fresh SourceManager.
InitInitialize == OldIdle /\ NewIdle

NextInitialize ==
    \E c \in Callers :
        \/ InInitializeCall(c)
        \/ InLoadConfigurationSettled(c)
        \/ InPersistenceSettled(c)
        \/ InRegisterConnectorsSettled(c)

SpecInitialize == InitInitialize /\ [][NextInitialize]_vars

(***************************************************************************)
(* Claims about SourceManager.initialize (checked under SpecInitialize)    *)
(***************************************************************************)
IsPrefix(s, t) == Len(s) <= Len(t) /\ \A i \in 1..Len(s) : s[i] = t[i]

SucceededInitialize(r) ==
    r.outcome = "returned" /\ ~r.sawInitialized

\* C12: initialize() performs load configuration, then initialize persistence,
\* then register connectors, in that order; initialized is set only once a
\* call has completed all three; and a call made after a successful one
\* returns without repeating any of the three steps.
C12_InitializeOrderedAndIdempotent ==
    /\ \A c \in Callers : inPc[c] # "idle" => IsPrefix(inCur[c].steps, InitializeSteps)
    /\ \A i \in 1..Len(inHist) :
          /\ IsPrefix(inHist[i].steps, InitializeSteps)
          /\ SucceededInitialize(inHist[i]) => inHist[i].steps = InitializeSteps
          /\ inHist[i].outcome = "raised" => inHist[i].steps # InitializeSteps
          /\ inHist[i].sawInitialized =>
                inHist[i].steps = <<>> /\ inHist[i].outcome = "returned"
    /\ inInitialized <=> \E i \in 1..Len(inHist) : SucceededInitialize(inHist[i])
    /\ \A c \in Callers :
          (inPc[c] # "idle" /\ \E i \in 1..Len(inHist) : SucceededInitialize(inHist[i]))
              => ~inCur[c].sawInitialized

\* A call that ran the three steps, followed by a call that returned at once.
C12_Witness ==
    \E i, j \in 1..Len(inHist) :
        /\ i < j
        /\ SucceededInitialize(inHist[i]) /\ inHist[i].steps = InitializeSteps
        /\ inHist[j].sawInitialized /\ inHist[j].steps = <<>>

(***************************************************************************)
(* SourceManager.harvestSourceById (src/src/sources/index.js)              *)
(***************************************************************************)
\* Bound on the number of harvestSourceById calls
MaxHarvestCalls == 3

\* The source directories of the configuration tree. loadSourceConfig gives a
\* SourceConfig the directory name as its id, its name and its type.
SourceDirs == {"insee", "insee-sirene", "assemblee"}

LoadedSourceConfig(dir) == [id |-> dir, name |-> dir, type |-> dir]

\* The ids harvestSourceById is called with.
RequestedIds == SourceDirs \cup {"unknown-source"}

\* configManager.getSourceConfig(sourceId): Map.get, NoValue for undefined
GetSourceConfig(registry, sourceId) ==
    IF \E c \in registry : c.id = sourceId
    THEN CHOOSE c \in registry : c.id = sourceId
    ELSE NoValue

\* `if (!sourceConfig)` of harvestSourceById
SourceNotFound(sourceConfig) == sourceConfig = NoValue

\* What connector.harvest(options) does once it has reached one of its fetch
\* sub-operations: requests issued, saves made, and whether it throws.
ConnectorRuns ==
    { [threw |-> FALSE, requests |-> 1, saved |-> 1, message |-> "none", stage |-> "fetch"],
      [threw |-> FALSE, requests |-> 1, saved |-> 0, message |-> "none", stage |-> "fetch"],
      [threw |-> TRUE, requests |-> 1, saved |-> 0,
       message |-> "Request failed with status code 500", stage |-> "fetch"] }

\* The ids the switch of InseeConnector.harvest has a case for.
InseeSourceIds == {"insee-sirene", "insee-bdm", "insee-donnees-locales"}

\* `new InseeClient(sourceConfig.config)`: the constructor reads config.baseUrl,
\* which throws a TypeError when the SourceConfig has no `config` field.
HasClientConfig(sourceConfig) == "config" \in DOMAIN sourceConfig

\* `default: throw new Error(...)` of the switch on this.sourceConfig.id
UnsupportedSource(sourceConfig) == sourceConfig.id \notin InseeSourceIds

\* What new ConnectorClass(sourceConfig, persistenceManager) followed by
\* connector.harvest(options) can do for a SourceConfig: the constructor
\* throws, the switch throws, or a fetch sub-operation runs.
ConnectorRunsOf(sourceConfig) ==
    IF ~HasClientConfig(sourceConfig)
    THEN { [threw |-> TRUE, requests |-> 0, saved |-> 0, stage |-> "constructor",
            message |-> "Cannot read properties of undefined (reading 'baseUrl')"] }
    ELSE IF UnsupportedSource(sourceConfig)
    THEN { [threw |-> TRUE, requests |-> 0, saved |-> 0, stage |-> "switch",
            message |-> "Type de source INSEE non supporté: " \o sourceConfig.id] }
    ELSE ConnectorRuns

\* harvestSourceById(sourceId, options), the whole call, on a manager whose
\* ensureInitialized() succeeds (initOk) or throws.
HarvestSourceById(registry, connectors, sourceId, initOk, run) ==
    LET base == [called |-> TRUE, sourceId |-> sourceId, initOk |-> initOk,
                 instantiated |-> 0, requests |-> 0, saved |-> 0, stage |-> "none"]
        sourceConfig == GetSourceConfig(registry, sourceId)
    IN
    IF ~initOk
    THEN base @@ [raised |-> TRUE, message |-> "initialize failed", type |-> "none"]
    ELSE IF SourceNotFound(sourceConfig)
    THEN base @@ [raised |-> TRUE, message |-> "Source not found: " \o sourceId,
                  type |-> "none"]
    ELSE IF ConnectorNotFound(connectors, sourceConfig.type)
    THEN base @@ [raised |-> TRUE, type |-> sourceConfig.type,
                  message |-> "Connector not found for type: " \o sourceConfig.type]
    ELSE [called |-> TRUE, sourceId |-> sourceId, initOk |-> initOk,
          instantiated |-> 1, requests |-> run.requests, saved |-> run.saved,
          raised |-> run.threw, message |-> run.message, type |-> sourceConfig.type,
          stage |-> run.stage]

HbHarvestSourceById ==
    /\ hbCalls < MaxHarvestCalls
    /\ \E sourceId \in RequestedIds,
          initOk \in (IF hbInitialized THEN {TRUE} ELSE BOOLEAN) :
       \E run \in ConnectorRunsOf(GetSourceConfig(hbRegistry, sourceId)) :
          LET r == HarvestSourceById(hbRegistry, RegisteredConnectors, sourceId,
                                     initOk, run)
          IN /\ hbLast' = r
             /\ hbTotals' = [instantiated |-> hbTotals.instantiated + r.instantiated,
                             requests |-> hbTotals.requests + r.requests,
                             saved |-> hbTotals.saved + r.saved,
                             notFound |-> hbTotals.notFound +
                                 (IF initOk /\ SourceNotFound(GetSourceConfig(hbRegistry, sourceId))
                                  THEN 1 ELSE 0)]
             /\ hbInitialized' = initOk
    /\ hbCalls' = hbCalls + 1
    /\ UNCHANGED hbRegistry
    /\ UNCHANGED notHb

\* A manager, fresh or initialized, over any configuration tree.
InitHarvestById ==
    /\ hbInitialized \in BOOLEAN
    /\ hbRegistry \in SUBSET { LoadedSourceConfig(dir) : dir \in SourceDirs }
    /\ hbLast = [called |-> FALSE]
    /\ hbTotals = [instantiated |-> 0, requests |-> 0, saved |-> 0, notFound |-> 0]
    /\ hbCalls = 0
    /\ OldIdle
    /\ InIdle /\ PmIdle /\ CvIdle /\ CmIdle /\ MpIdle /\ TrIdle /\ LateIdle

NextHarvestById == HbHarvestSourceById

SpecHarvestById == InitHarvestById /\ [][NextHarvestById]_vars

(***************************************************************************)
(* Claims about harvestSourceById (checked under SpecHarvestById)          *)
(***************************************************************************)
NoSideEffect(last) ==
    last.instantiated = 0 /\ last.requests = 0 /\ last.saved = 0

InRegistry(sourceId) == \E c \in hbRegistry : c.id = sourceId

\* C13: harvestSourceById fails with 'Source not found: <id>' for an id that
\* is not in the configuration registry and with 'Connector not found for
\* type: <type>' for a source whose type has no registered connector; in both
\* cases it instantiates no connector, issues no request and saves nothing.
C13_UnknownSourceOrConnectorFailsFast ==
    hbLast.called =>
        /\ ~InRegistry(hbLast.sourceId) =>
              /\ hbLast.raised /\ NoSideEffect(hbLast)
              /\ hbLast.initOk => hbLast.message = "Source not found: " \o hbLast.sourceId
        /\ (\E c \in hbRegistry :
               c.id = hbLast.sourceId /\ c.type \notin RegisteredConnectors) =>
              /\ hbLast.raised /\ NoSideEffect(hbLast)
              /\ hbLast.initOk =>
                    \E c \in hbRegistry :
                        /\ c.id = hbLast.sourceId
                        /\ hbLast.message = "Connector not found for type: " \o c.type

\* An unknown id and a source without connector have both been asked for on an
\* initialized manager, after a harvest that did reach a connector.
C13_Witness ==
    /\ hbLast.called /\ hbLast.initOk
    /\ hbTotals.instantiated >= 1 /\ hbTotals.notFound >= 1
    /\ hbLast.raised /\ NoSideEffect(hbLast)
    /\ hbLast.type \notin RegisteredConnectors /\ hbLast.type # "none"

(***************************************************************************)
(* PersistenceManager (src/unnamed/part_010)                               *)
(***************************************************************************)
\* Bound on the number of strategy objects registered
MaxRegistrations == 3

StrategyNames == {"mongodb", "redis", "memory"}

\* The names a caller may ask for; "undefined" is what a persistence block
\* without a strategy field gives.
RequestedStrategyNames == StrategyNames \cup {"unknown", "undefined"}

PersistenceOps == {"save", "find", "findOne", "update", "delete"}

\* The strategies Map is a function from the registered names to strategy
\* objects; an object is told from the others by the rank of its registration.
StrategyObject(rank) == [kind |-> "strategy", rank |-> rank]

UnknownStrategyMessage(name) == "Stratégie de persistance inconnue: " \o name

\* registerStrategy(name, strategy): this.strategies.set(name, strategy)
RegisterStrategy(strategies, name, strategy) ==
    [n \in DOMAIN strategies \cup {name} |->
        IF n = name THEN strategy ELSE strategies[n]]

GetStrategyIgnoresMissing(strategies, name) ==
    IF name \in DOMAIN strategies
    THEN [threw |-> FALSE, strategy |-> strategies[name], message |-> "none"]
    ELSE [threw |-> FALSE, strategy |-> NoValue, message |-> "none"]

\* getStrategy(name)
GetStrategy(strategies, name) ==
    IF name \in DOMAIN strategies
    THEN [threw |-> FALSE, strategy |-> strategies[name], message |-> "none"]
    ELSE [threw |-> TRUE, strategy |-> NoValue, message |-> UnknownStrategyMessage(name)]

PmRegisterStrategy ==
    /\ Len(pmRegs) < MaxRegistrations
    /\ \E name \in StrategyNames :
          LET strategy == StrategyObject(Len(pmRegs) + 1)
          IN /\ pmStrategies' = RegisterStrategy(pmStrategies, name, strategy)
             /\ pmRegs' = Append(pmRegs, [name |-> name, strategy |-> strategy])
    /\ UNCHANGED pmLast
    /\ UNCHANGED notPm

\* initialize(config): the connections asked for are opened (either may
\* throw), then the two built-in strategies are registered.
PmInitialize ==
    /\ Len(pmRegs) + 2 <= MaxRegistrations
    /\ \E connected \in BOOLEAN :
          IF connected
          THEN LET first == StrategyObject(Len(pmRegs) + 1)
                   second == StrategyObject(Len(pmRegs) + 2)
               IN /\ pmStrategies' =
                        RegisterStrategy(RegisterStrategy(pmStrategies, "mongodb", first),
                                         "redis", second)
                  /\ pmRegs' = pmRegs \o <<[name |-> "mongodb", strategy |-> first],
                                           [name |-> "redis", strategy |-> second]>>
                  /\ pmLast' = [called |-> TRUE, op |-> "initialize", name |-> "none",
                                raised |-> FALSE, message |-> "none",
                                strategy |-> NoValue, strategyCalls |-> <<>>,
                                regs |-> Len(pmRegs) + 2]
          ELSE /\ pmLast' = [called |-> TRUE, op |-> "initialize", name |-> "none",
                             raised |-> TRUE, message |-> "connection failed",
                             strategy |-> NoValue, strategyCalls |-> <<>>,
                             regs |-> Len(pmRegs)]
               /\ UNCHANGED <<pmStrategies, pmRegs>>
    /\ UNCHANGED notPm

PmGetStrategy ==
    /\ \E name \in RequestedStrategyNames :
          LET g == GetStrategy(pmStrategies, name)
          IN pmLast' = [called |-> TRUE, op |-> "getStrategy", name |-> name,
                        raised |-> g.threw, message |-> g.message,
                        strategy |-> g.strategy, strategyCalls |-> <<>>,
                        regs |-> Len(pmRegs)]
    /\ UNCHANGED <<pmStrategies, pmRegs>>
    /\ UNCHANGED notPm

\* save/find/findOne/update/delete(sourceConfig, ...): the strategy named by
\* sourceConfig.persistence.strategy is looked up, then its method of the same
\* name is called, which returns or throws.
PmOperation ==
    /\ \E op \in PersistenceOps, name \in RequestedStrategyNames, opThrows \in BOOLEAN :
          LET g == GetStrategy(pmStrategies, name)
          IN IF g.threw \/ g.strategy = NoValue
             THEN pmLast' = [called |-> TRUE, op |-> op, name |-> name,
                             raised |-> TRUE,
                             message |-> IF g.threw THEN g.message
                                         ELSE "Cannot read properties of undefined",
                             strategy |-> NoValue, strategyCalls |-> <<>>,
                             regs |-> Len(pmRegs)]
             ELSE pmLast' = [called |-> TRUE, op |-> op, name |-> name,
                             raised |-> opThrows,
                             message |-> IF opThrows THEN "strategy failed" ELSE "none",
                             strategy |-> g.strategy,
                             strategyCalls |-> <<[strategy |-> g.strategy, op |-> op]>>,
                             regs |-> Len(pmRegs)]
    /\ UNCHANGED <<pmStrategies, pmRegs>>
    /\ UNCHANGED notPm

\* A PersistenceManager built by the constructor.
InitPersistence == OldIdle /\ NewIdle

NextPersistence == PmRegisterStrategy \/ PmInitialize \/ PmGetStrategy \/ PmOperation

SpecPersistence == InitPersistence /\ [][NextPersistence]_vars

(***************************************************************************)
(* Claims about PersistenceManager (checked under SpecPersistence)         *)
(***************************************************************************)
\* The registrations made before the last call.
RegsAtLastCall == SubSeq(pmRegs, 1, pmLast.regs)

EverRegistered(name) == \E i \in 1..Len(RegsAtLastCall) : RegsAtLastCall[i].name = name

LastRegistered(name) ==
    LET last == CHOOSE i \in 1..Len(RegsAtLastCall) :
                    /\ RegsAtLastCall[i].name = name
                    /\ \A j \in (i + 1)..Len(RegsAtLastCall) : RegsAtLastCall[j].name # name
    IN RegsAtLastCall[last].strategy

\* C14: getStrategy(name) throws the 'unknown persistence strategy' error
\* naming name for every name never registered and returns the strategy
\* registered last under name otherwise; save/find/findOne/update/delete on a
\* sourceConfig naming an unregistered strategy throw the same error and call
\* no strategy.
C14_UnknownStrategyFails ==
    (pmLast.called /\ pmLast.op # "initialize") =>
        /\ ~EverRegistered(pmLast.name) =>
              /\ pmLast.raised
              /\ pmLast.message = UnknownStrategyMessage(pmLast.name)
              /\ pmLast.strategyCalls = <<>>
        /\ (EverRegistered(pmLast.name) /\ pmLast.op = "getStrategy") =>
              /\ ~pmLast.raised
              /\ pmLast.strategy = LastRegistered(pmLast.name)
        /\ (EverRegistered(pmLast.name) /\ pmLast.op \in PersistenceOps) =>
              pmLast.strategyCalls =
                  <<[strategy |-> LastRegistered(pmLast.name), op |-> pmLast.op]>>

\* A name registered twice is looked up, and a save names an unknown strategy.
C14_Witness ==
    /\ pmLast.called /\ pmLast.op = "save" /\ ~EverRegistered(pmLast.name) /\ pmLast.raised
    /\ \E i, j \in 1..Len(RegsAtLastCall) :
          i < j /\ RegsAtLastCall[i].name = RegsAtLastCall[j].name

(***************************************************************************)
(* Configuration validation: ConfigureSourceCommand.validateConfiguration  *)
(* (src/unnamed/part_004) and ConfigManager.validateSourceConfig           *)
(* (src/unnamed/part_013)                                                  *)
(***************************************************************************)
\* A configuration document, by what it holds: whether id, name and type are
\* there, and for connection and persistence whether the block is absent, is
\* there without its required field, or is complete.
ConfigDocuments ==
    [id : BOOLEAN, name : BOOLEAN, type : BOOLEAN,
     connection : {"absent", "no_baseUrl", "full"},
     persistence : {"absent", "no_strategies", "full"}]

\* The fields a usable SourceConfig must have.
RequiredFields == {"id", "name", "type", "connection.baseUrl", "persistence.strategies"}

\* Whether config holds the required field.
HasField(config, field) ==
    CASE field = "id" -> config.id
      [] field = "name" -> config.name
      [] field = "type" -> config.type
      [] field = "connection.baseUrl" -> config.connection = "full"
      [] field = "persistence.strategies" -> config.persistence = "full"

\* validateConfiguration(config): the first test that fails throws; the
\* tests, in order: id, name, type, connection, persistence (`Missing required
\* field: <field>`), connection.baseUrl, persistence.strategies. The result
\* gives the message and the required fields the message names.
ValidateConfiguration(config) ==
    IF ~config.id
    THEN [threw |-> TRUE, message |-> "Missing required field: id", named |-> {"id"}]
    ELSE IF ~config.name
    THEN [threw |-> TRUE, message |-> "Missing required field: name", named |-> {"name"}]
    ELSE IF ~config.type
    THEN [threw |-> TRUE, message |-> "Missing required field: type", named |-> {"type"}]
    ELSE IF config.connection = "absent"
    THEN [threw |-> TRUE, message |-> "Missing required field: connection",
          named |-> {"connection.baseUrl"}]
    ELSE IF config.persistence = "absent"
    THEN [threw |-> TRUE, message |-> "Missing required field: persistence",
          named |-> {"persistence.strategies"}]
    ELSE IF config.connection # "full"
    THEN [threw |-> TRUE, message |-> "Missing baseUrl in connection configuration",
          named |-> {"connection.baseUrl"}]
    ELSE IF config.persistence # "full"
    THEN [threw |-> TRUE, message |-> "Missing strategies in persistence configuration",
          named |-> {"persistence.strategies"}]
    ELSE [threw |-> FALSE, message |-> "none", named |-> {}]

\* validateSourceConfig(sourceId) on the registry entry config: the errors
\* about connection and persistence are collected and thrown together.
ValidateSourceConfig(config) ==
    LET connectionErrors ==
            IF config.connection = "absent"
            THEN <<"Connection configuration is required">>
            ELSE IF config.connection # "full"
            THEN <<"Connection baseUrl is required">>
            ELSE <<>>
        persistenceErrors ==
            IF config.persistence = "absent"
            THEN <<"Persistence configuration is required">>
            ELSE IF config.persistence # "full"
            THEN <<"Persistence strategies are required">>
            ELSE <<>>
        errors == connectionErrors \o persistenceErrors
    IN [threw |-> Len(errors) > 0, errors |-> errors,
        named |-> (IF connectionErrors # <<>> THEN {"connection.baseUrl"} ELSE {})
                  \cup (IF persistenceErrors # <<>> THEN {"persistence.strategies"} ELSE {})]

\* A configuration file is read.
CvRead ==
    /\ cvConfig = NoValue
    /\ cvConfig' \in ConfigDocuments
    /\ UNCHANGED cvResult
    /\ UNCHANGED notCv

\* ConfigureSourceCommand validates the document (addSource / updateSource).
CvValidateConfiguration ==
    /\ cvConfig # NoValue
    /\ cvResult = NoValue
    /\ LET r == ValidateConfiguration(cvConfig)
       IN cvResult' = [validator |-> "validateConfiguration", threw |-> r.threw,
                       named |-> r.named]
    /\ UNCHANGED cvConfig
    /\ UNCHANGED notCv

\* ConfigManager validates a registry entry; loadSourceConfig always gives an
\* entry its id, name and type.
CvValidateSourceConfig ==
    /\ cvConfig # NoValue
    /\ cvResult = NoValue
    /\ cvConfig.id /\ cvConfig.name /\ cvConfig.type
    /\ LET r == ValidateSourceConfig(cvConfig)
       IN cvResult' = [validator |-> "validateSourceConfig", threw |-> r.threw,
                       named |-> r.named]
    /\ UNCHANGED cvConfig
    /\ UNCHANGED notCv

InitValidation == OldIdle /\ NewIdle

NextValidation == CvRead \/ CvValidateConfiguration \/ CvValidateSourceConfig

SpecValidation == InitValidation /\ [][NextValidation]_vars

(***************************************************************************)
(* Claims about configuration validation (checked under SpecValidation)    *)
(***************************************************************************)
MissingFields(config) == { f \in RequiredFields : ~HasField(config, f) }

\* C15: validating a SourceConfig that lacks required fields (among id, name,
\* type, connection.baseUrl, persistence.strategies) fails with one error
\* naming every missing field; a config holding all of them passes.
C15_ValidationListsAllMissingFields ==
    cvResult # NoValue =>
        /\ cvResult.threw <=> MissingFields(cvConfig) # {}
        /\ cvResult.named = MissingFields(cvConfig)

(***************************************************************************)
(* ConfigManager (src/unnamed/part_013)                                    *)
(***************************************************************************)
\* The listing fs.readdir gives of the config directory, with what fs.stat
\* says of each item.
ConfigTreeItems ==
    << [name |-> "global.json", isDirectory |-> FALSE],
       [name |-> "insee", isDirectory |-> TRUE],
       [name |-> "passport-strategies", isDirectory |-> TRUE],
       [name |-> "assemblee", isDirectory |-> TRUE] >>

\* The directories that hold a source.
ConfigSourceDirs == {"insee", "assemblee"}

\* The five documents of a source directory, in the order they are read.
DocumentNames == <<"connection", "persistence", "schedule", "transform", "health">>

\* What a source directory can hold for each document: no file, a file that
\* JSON.parse rejects, or a file with some content. The contents told apart
\* are: a connection with or without baseUrl, a persistence block whose
\* strategy is or is not one the PersistenceManager has registered.
SourceDirectories ==
    [connection : {"missing", "malformed", "no_baseUrl", "full"},
     persistence : {"missing", "malformed", "unregistered", "registered"},
     schedule : {"missing", "malformed", "present"},
     transform : {"missing", "malformed", "present"},
     health : {"missing", "malformed", "present"}]

Null == "null"

ReadDocumentMissingIsFatal(document) ==
    IF document = "missing" THEN [threw |-> TRUE, value |-> Null]
    ELSE IF document = "malformed" THEN [threw |-> FALSE, value |-> Null]
    ELSE [threw |-> FALSE, value |-> document]

\* One of the five try blocks of loadSourceConfig: readFile and JSON.parse; the
\* catch logs a warning whatever was thrown, and the field keeps its null.
ReadDocument(document) ==
    IF document \in {"missing", "malformed"}
    THEN [threw |-> FALSE, value |-> Null]
    ELSE [threw |-> FALSE, value |-> document]

\* loadSourceConfig(sourceName) on a directory holding docs: the SourceConfig
\* it builds, and whether it throws before this.sourceConfigs.set.
LoadSourceConfig(sourceName, docs) ==
    LET read == [n \in {DocumentNames[i] : i \in 1..Len(DocumentNames)} |->
                    ReadDocument(docs[n])]
    IN [threw |-> \E n \in DOMAIN read : read[n].threw,
        config |-> [id |-> sourceName, name |-> sourceName, type |-> sourceName,
                    connection |-> read["connection"].value,
                    persistence |-> read["persistence"].value,
                    schedule |-> read["schedule"].value,
                    transform |-> read["transform"].value,
                    health |-> read["health"].value]]

\* this.sourceConfigs.set(id, config)
RegistrySet(registry, id, config) ==
    [k \in DOMAIN registry \cup {id} |-> IF k = id THEN config ELSE registry[k]]

\* this.sourceConfigs.delete(id)
RegistryDelete(registry, id) ==
    [k \in DOMAIN registry \ {id} |-> registry[k]]

HasMalformed(docs) == \E n \in DOMAIN docs : docs[n] = "malformed"

\* loadConfiguration(): loadGlobalConfig() (which throws when global.json is
\* missing or unparsable), then loadSourceConfigs() up to its loop (readdir
\* may throw).
CmLoadConfiguration ==
    /\ cmPc = "idle"
    /\ \E globalOk \in BOOLEAN, readdirOk \in BOOLEAN :
          cmPc' = IF globalOk /\ readdirOk THEN "loop" ELSE "raised"
    /\ cmIdx' = 1
    /\ UNCHANGED <<cmRegistry, cmLog, cmLast>>
    /\ UNCHANGED notCm

\* One turn of the loop of loadSourceConfigs(): fs.stat (which may throw), and
\* loadSourceConfig for a directory other than passport-strategies.
CmLoadNextItem ==
    /\ cmPc = "loop"
    /\ cmIdx <= Len(ConfigTreeItems)
    /\ LET item == ConfigTreeItems[cmIdx] IN
       \E statOk \in BOOLEAN :
          IF ~statOk
          THEN /\ cmPc' = "raised"
               /\ UNCHANGED <<cmRegistry, cmLog, cmLast>>
          ELSE IF item.isDirectory /\ item.name # "passport-strategies"
          THEN \E docs \in SourceDirectories :
                  LET r == LoadSourceConfig(item.name, docs)
                  IN /\ cmLast' = [called |-> TRUE, sourceName |-> item.name,
                                   docs |-> docs, threw |-> r.threw]
                     /\ cmLog' = Append(cmLog, [sourceName |-> item.name,
                                                malformed |-> HasMalformed(docs),
                                                threw |-> r.threw])
                     /\ cmRegistry' = IF r.threw THEN cmRegistry
                                      ELSE RegistrySet(cmRegistry, item.name, r.config)
                     /\ cmPc' = IF r.threw THEN "raised" ELSE "loop"
          ELSE /\ cmPc' = "loop"
               /\ UNCHANGED <<cmRegistry, cmLog, cmLast>>
    /\ cmIdx' = cmIdx + 1
    /\ UNCHANGED notCm

\* The loop is over: loadConfiguration() returns.
CmLoadReturn ==
    /\ cmPc = "loop"
    /\ cmIdx > Len(ConfigTreeItems)
    /\ cmPc' = "returned"
    /\ UNCHANGED <<cmRegistry, cmIdx, cmLog, cmLast>>
    /\ UNCHANGED notCm

\* A ConfigManager built by the constructor.
InitConfigLoad == OldIdle /\ NewIdle

NextConfigLoad == CmLoadConfiguration \/ CmLoadNextItem \/ CmLoadReturn

SpecConfigLoad == InitConfigLoad /\ [][NextConfigLoad]_vars

(***************************************************************************)
(* Claims about loading the configuration tree (checked under              *)
(* SpecConfigLoad)                                                         *)
(***************************************************************************)
Registered(sourceName) == sourceName \in DOMAIN cmRegistry

\* C17: a source directory holding a malformed document makes the load of
\* that source fail, so that the source is not in the registry, while every
\* other source directory is still loaded into the registry.
C17_MalformedDocumentFailsThatSourceOnly ==
    /\ \A i \in 1..Len(cmLog) :
          IF cmLog[i].malformed
          THEN ~Registered(cmLog[i].sourceName)
          ELSE Registered(cmLog[i].sourceName)
    /\ cmPc = "returned" =>
          \A d \in ConfigSourceDirs : \E i \in 1..Len(cmLog) : cmLog[i].sourceName = d

LoadableConfigs ==
    { LoadSourceConfig(d, docs).config : d \in ConfigSourceDirs, docs \in SourceDirectories }

\* addSourceConfig(sourceId, config): the directory is made and a file is
\* written for each block config holds (either may throw), then
\* loadSourceConfig(sourceId) reads the directory back: the blocks written and
\* whatever the directory held already for the others. loaded is the
\* SourceConfig that read builds.
AddSourceConfig(registry, sourceId, loaded, writeOk) ==
    IF writeOk
    THEN [threw |-> FALSE, registry |-> RegistrySet(registry, sourceId, loaded)]
    ELSE [threw |-> TRUE, registry |-> registry]

\* loadSourceConfig(sourceName), one directory of loadConfiguration()
CmLoadSourceConfig ==
    /\ \E loaded \in LoadableConfigs :
          cmRegistry' = RegistrySet(cmRegistry, loaded.id, loaded)
    /\ UNCHANGED <<cmPc, cmIdx, cmLog, cmLast>>
    /\ UNCHANGED notCm

CmAddSourceConfig ==
    /\ \E loaded \in LoadableConfigs, writeOk \in BOOLEAN :
          /\ loaded.id \notin DOMAIN cmRegistry
          /\ cmRegistry' = AddSourceConfig(cmRegistry, loaded.id, loaded, writeOk).registry
    /\ UNCHANGED <<cmPc, cmIdx, cmLog, cmLast>>
    /\ UNCHANGED notCm

\* updateSourceConfig(sourceId, config) is addSourceConfig(sourceId, config)
CmUpdateSourceConfig ==
    /\ \E loaded \in LoadableConfigs, writeOk \in BOOLEAN :
          /\ loaded.id \in DOMAIN cmRegistry
          /\ cmRegistry' = AddSourceConfig(cmRegistry, loaded.id, loaded, writeOk).registry
    /\ UNCHANGED <<cmPc, cmIdx, cmLog, cmLast>>
    /\ UNCHANGED notCm

\* removeSourceConfig(sourceId): fs.rm (which may throw), then
\* this.sourceConfigs.delete(sourceId)
CmRemoveSourceConfig ==
    /\ \E sourceId \in ConfigSourceDirs, rmOk \in BOOLEAN :
          cmRegistry' = IF rmOk THEN RegistryDelete(cmRegistry, sourceId) ELSE cmRegistry
    /\ UNCHANGED <<cmPc, cmIdx, cmLog, cmLast>>
    /\ UNCHANGED notCm

InitConfigRegistry == OldIdle /\ NewIdle

NextConfigRegistry ==
    CmLoadSourceConfig \/ CmAddSourceConfig \/ CmUpdateSourceConfig \/ CmRemoveSourceConfig

SpecConfigRegistry == InitConfigRegistry /\ [][NextConfigRegistry]_vars

(***************************************************************************)
(* Claims about the registry (checked under SpecConfigRegistry)            *)
(***************************************************************************)
\* C16: every SourceConfig in the registry has a connection.baseUrl and a
\* persistence strategy that the strategy registry resolves.
C16_RegistryHoldsOnlyUsableConfigs ==
    \A id \in DOMAIN cmRegistry :
        /\ cmRegistry[id].connection = "full"
        /\ cmRegistry[id].persistence = "registered"

(***************************************************************************)
(* MongoPersistence.save (src/unnamed/part_011)                            *)
(***************************************************************************)
\* Bounds: records per save, and distinct values of the unique key
MaxBatch == 3
MaxKey == 3

\* A record is told from the others by the value of its unique key.
Batches == UNION { [1..n -> 1..MaxKey] : n \in 0..MaxBatch }

\* model.insertMany(data, {ordered: false, rawResult: true}): the server tries
\* every document in turn; one whose key is already in the collection is
\* refused with a duplicate-key write error and the others are inserted. With
\* any write error the returned promise rejects with the bulk write error (which
\* carries the counts); without one it resolves to the raw result.
RECURSIVE InsertManyUnordered(_, _, _)
InsertManyUnordered(store, data, i) ==
    IF i > Len(data)
    THEN [store |-> store, insertedCount |-> 0, writeErrors |-> 0]
    ELSE IF data[i] \in store
    THEN LET rest == InsertManyUnordered(store, data, i + 1)
         IN [rest EXCEPT !.writeErrors = @ + 1]
    ELSE LET rest == InsertManyUnordered(store \cup {data[i]}, data, i + 1)
         IN [rest EXCEPT !.insertedCount = @ + 1]

\* save(sourceConfig, data) with an array: the try around insertMany logs the
\* error and throws it again.
SaveMany(store, data) ==
    LET r == InsertManyUnordered(store, data, 1)
    IN IF r.writeErrors > 0
       THEN [store |-> r.store, threw |-> TRUE, returned |-> NoValue]
       ELSE [store |-> r.store, threw |-> FALSE,
             returned |-> [insertedCount |-> r.insertedCount]]

\* save(sourceConfig, data) with a single record: new model(data).save()
SaveOne(store, key) ==
    IF key \in store
    THEN [store |-> store, threw |-> TRUE, returned |-> NoValue]
    ELSE [store |-> store \cup {key}, threw |-> FALSE, returned |-> [id |-> key]]

MpSaveMany ==
    /\ \E data \in Batches :
          LET r == SaveMany(mpStore, data)
          IN /\ mpStore' = r.store
             /\ mpLast' = [called |-> TRUE, isArray |-> TRUE, data |-> data,
                           before |-> mpStore, threw |-> r.threw,
                           returned |-> r.returned]
    /\ UNCHANGED notMp

MpSaveOne ==
    /\ \E key \in 1..MaxKey :
          LET r == SaveOne(mpStore, key)
          IN /\ mpStore' = r.store
             /\ mpLast' = [called |-> TRUE, isArray |-> FALSE, data |-> <<key>>,
                           before |-> mpStore, threw |-> r.threw,
                           returned |-> r.returned]
    /\ UNCHANGED notMp

\* An empty collection.
InitMongoSave == OldIdle /\ NewIdle

NextMongoSave == MpSaveMany \/ MpSaveOne

SpecMongoSave == InitMongoSave /\ [][NextMongoSave]_vars

(***************************************************************************)
(* Claims about MongoPersistence.save (checked under SpecMongoSave)        *)
(***************************************************************************)
\* The records of data that violate the unique key: their key is in the
\* collection already or belongs to an earlier record of data.
Violating(before, data) ==
    { i \in 1..Len(data) : data[i] \in before \/ \E j \in 1..(i - 1) : data[j] = data[i] }

\* C19: save of a sequence of records some of which violate a unique key does
\* not abort: every non-violating record is stored, and save returns a result
\* whose inserted count is the number of records actually stored.
C19_BulkSaveReportsInsertedCount ==
    (mpLast.called /\ mpLast.isArray) =>
        /\ \A i \in 1..Len(mpLast.data) :
              i \notin Violating(mpLast.before, mpLast.data) => mpLast.data[i] \in mpStore
        /\ ~mpLast.threw
        /\ mpLast.returned.insertedCount = Cardinality(mpStore \ mpLast.before)

(***************************************************************************)
(* DataTransformer (src/src/sources/insee/client.js) and the transform and *)
(* save steps of InseeConnector.harvest (src/src/sources/insee/index.js)   *)
(***************************************************************************)
\* Bound on the number of records of a fetched list
MaxItems == 2

\* JSON values: strings, objects (a record of values) and arrays.
Str(v) == [t |-> "str", v |-> v]
Obj(f) == [t |-> "obj", f |-> f]
Arr(a) == [t |-> "arr", a |-> a]
JsonNull == [t |-> "null"]

\* The values dateCreationUniteLegale takes in a payload; the last one is not
\* a date, the empty string is falsy.
RawDates == {"2023-01-15T00:00:00Z", "2024-02-29T10:30:00Z", "pas une date", ""}

ValidDate(value) == value \in {"2023-01-15T00:00:00Z", "2024-02-29T10:30:00Z"}

\* date.toISOString() of new Date(value)
ToISOString(value) ==
    IF value = "2023-01-15T00:00:00Z" THEN "2023-01-15T00:00:00.000Z"
    ELSE "2024-02-29T10:30:00.000Z"

\* date.toISOString().split('T')[0]
IsoDay(value) ==
    IF value = "2023-01-15T00:00:00Z" THEN "2023-01-15" ELSE "2024-02-29"

\* transformDate(value, format): throws on a value that is not a date
TransformDate(value, format) ==
    IF ~ValidDate(value) THEN [threw |-> TRUE, value |-> value]
    ELSE IF format = "YYYY-MM-DD" THEN [threw |-> FALSE, value |-> IsoDay(value)]
    ELSE [threw |-> FALSE, value |-> ToISOString(value)]

\* transformEnum(value, mapping)
TransformEnum(value, mapping) ==
    IF value \in DOMAIN mapping
    THEN [threw |-> FALSE, value |-> mapping[value]]
    ELSE [threw |-> FALSE, value |-> value]

\* The switch of applyRuleToObject on a string value.
TransformValue(value, rule) ==
    CASE rule.type = "date" -> TransformDate(value, rule.format)
      [] rule.type = "enum" -> TransformEnum(value, rule.mapping)
      [] OTHER -> [threw |-> FALSE, value |-> value]

\* `!obj || !field || !obj[field]`: obj is not an object holding a truthy
\* value under field
NothingToTransform(obj, field) ==
    \/ obj.t # "obj"
    \/ field \notin DOMAIN obj.f
    \/ obj.f[field] = Str("")

\* applyRuleToObject(obj, rule): the field is looked up on obj itself; a value
\* that is not a string makes the date transformation throw, and the catch
\* returns obj unchanged.
ApplyRuleToObject(obj, rule) ==
    IF NothingToTransform(obj, rule.field) THEN obj
    ELSE IF obj.f[rule.field].t # "str" THEN obj
    ELSE LET r == TransformValue(obj.f[rule.field].v, rule)
         IN IF r.threw THEN obj
            ELSE Obj([obj.f EXCEPT ![rule.field] = Str(r.value)])

\* applyRule(data, rule)
ApplyRule(data, rule) ==
    IF data.t = "arr"
    THEN Arr([i \in 1..Len(data.a) |-> ApplyRuleToObject(data.a[i], rule)])
    ELSE ApplyRuleToObject(data, rule)

\* A rule whose transformation throws on data or on one of its items
RuleThrows(data, rule) ==
    LET throwsOn(obj) ==
            /\ ~NothingToTransform(obj, rule.field)
            /\ obj.f[rule.field].t = "str"
            /\ TransformValue(obj.f[rule.field].v, rule).threw
    IN IF data.t = "arr" THEN \E i \in 1..Len(data.a) : throwsOn(data.a[i])
       ELSE throwsOn(data)

\* transform with one try/catch around the whole loop: the first rule that
\* throws ends the transformation
RECURSIVE TransformFromAbortsOnThrow(_, _, _)
TransformFromAbortsOnThrow(data, rules, i) ==
    IF i > Len(rules) THEN data
    ELSE IF RuleThrows(data, rules[i]) THEN data
    ELSE TransformFromAbortsOnThrow(ApplyRule(data, rules[i]), rules, i + 1)

\* transform(data, rules)
RECURSIVE TransformFrom(_, _, _)
TransformFrom(data, rules, i) ==
    IF i > Len(rules) THEN data
    ELSE TransformFrom(ApplyRule(data, rules[i]), rules, i + 1)

\* `Array.isArray(data) ? [...data] : { ...data }`: the copy of null is {}
ShallowCopy(data) == IF data.t \in {"arr", "obj"} THEN data ELSE Obj(<<>>)

\* transform(data, rules): data is returned as it is when there is no rule
Transform(data, rules) ==
    IF Len(rules) = 0 THEN data ELSE TransformFrom(ShallowCopy(data), rules, 1)

\* `data && (Array.isArray(data) ? data.length > 0 : Object.keys(data).length > 0)`
NonEmpty(data) ==
    /\ data # JsonNull
    /\ IF data.t = "arr" THEN Len(data.a) > 0 ELSE DOMAIN data.f # {}

\* `dataCount: Array.isArray(data) ? data.length : 1`
DataCount(data) == IF data.t = "arr" THEN Len(data.a) ELSE 1

DateRule(format) ==
    [field |-> "dateCreationUniteLegale", type |-> "date", format |-> format,
     mapping |-> <<>>]

EnumRule ==
    [field |-> "trancheEffectifsUniteLegale", type |-> "enum", format |-> "none",
     mapping |-> [x \in {"01"} |-> "1 ou 2 salariés"]]

\* The transform block of a SourceConfig: enabled, and the rules the
\* connector's constructor hands to its DataTransformer.
TransformConfigs ==
    [enabled : BOOLEAN,
     rules : { <<>>, <<DateRule("YYYY-MM-DD")>>, <<DateRule("ISO")>>,
               <<DateRule("YYYY-MM-DD"), EnumRule>>,
               <<EnumRule, DateRule("YYYY-MM-DD")>> }]

\* An unité légale as the API gives it.
UnitesLegales ==
    { Obj([siren |-> Str("123456789"), dateCreationUniteLegale |-> Str(d),
           trancheEffectifsUniteLegale |-> Str(e)]) :
        d \in RawDates, e \in {"01", "NN"} }

\* What the client's calls resolve to: one unité légale, a list of them, the
\* answer of the siret endpoint, where each établissement holds its unité
\* légale, or no data: null, or an empty object.
Payloads ==
    UnitesLegales
    \cup {JsonNull, Obj(<<>>)}
    \cup { Arr(a) : a \in UNION { [1..n -> UnitesLegales] : n \in 0..MaxItems } }
    \cup { Obj([header |-> Obj([total |-> Str("1")]),
                etablissements |->
                    Arr(<<Obj([siret |-> Str("12345678901234"), uniteLegale |-> u])>>)]) :
           u \in UnitesLegales }

\* harvest(params) from the payload on: transform when transform.enabled, save
\* when the data is not empty, and return the HarvestResult; saved is the data
\* handed to persistenceManager.save, NoValue when save is not called, and
\* dataCount the field of the result. One harvest is
\* followed per behaviour.
TrHarvestPayload ==
    /\ ~trHarvest.called
    /\ \E config \in TransformConfigs, payload \in Payloads :
          LET data == IF config.enabled THEN Transform(payload, config.rules)
                      ELSE payload
          IN trHarvest' = [called |-> TRUE, config |-> config, payload |-> payload,
                           saved |-> IF NonEmpty(data) THEN data ELSE NoValue,
                           dataCount |-> DataCount(data)]
    /\ UNCHANGED notTr

InitTransform == OldIdle /\ NewIdle

NextTransform == TrHarvestPayload

SpecTransform == InitTransform /\ [][NextTransform]_vars

(***************************************************************************)
(* Claims about the transformation of harvested data (checked under        *)
(* SpecTransform)                                                          *)
(***************************************************************************)
\* The rule applied to the named field wherever value carries it, at any depth.
RECURSIVE ApplyRuleEverywhere(_, _)
ApplyRuleEverywhere(value, rule) ==
    CASE value.t = "arr" ->
            Arr([i \in 1..Len(value.a) |-> ApplyRuleEverywhere(value.a[i], rule)])
      [] value.t = "obj" ->
            Obj([k \in DOMAIN value.f |->
                    IF k = rule.field /\ value.f[k].t = "str" /\ value.f[k].v # ""
                    THEN LET r == TransformValue(value.f[k].v, rule)
                         IN IF r.threw THEN value.f[k] ELSE Str(r.value)
                    ELSE ApplyRuleEverywhere(value.f[k], rule)])
      [] OTHER -> value

RECURSIVE ApplyRulesEverywhere(_, _, _)
ApplyRulesEverywhere(value, rules, i) ==
    IF i > Len(rules) THEN value
    ELSE ApplyRulesEverywhere(ApplyRuleEverywhere(value, rules[i]), rules, i + 1)

\* C20: with transform.enabled, the data handed to persistence.save holds the
\* transformed value of each rule's field at every position where the fetched
\* payload carries that field, nested records included.
C20_TransformReachesNestedFields ==
    (trHarvest.called /\ trHarvest.config.enabled /\ trHarvest.saved # NoValue) =>
        trHarvest.saved = ApplyRulesEverywhere(trHarvest.payload, trHarvest.config.rules, 1)

\* What one rule makes of the value a record holds under the rule's field: a
\* falsy value and a value whose transformation throws stay as they are.
RuleOnValue(value, rule) ==
    IF value.t # "str" \/ value.v = "" THEN value
    ELSE LET r == TransformValue(value.v, rule)
         IN IF r.threw THEN value ELSE Str(r.value)

\* The rules naming field k applied in order to the value under k.
RECURSIVE RulesOnField(_, _, _, _)
RulesOnField(value, k, rules, i) ==
    IF i > Len(rules) THEN value
    ELSE RulesOnField(IF rules[i].field = k THEN RuleOnValue(value, rules[i]) ELSE value,
                      k, rules, i + 1)

RulesOnRecord(obj, rules) ==
    Obj([k \in DOMAIN obj.f |-> RulesOnField(obj.f[k], k, rules, 1)])

RulesOnData(data, rules) ==
    IF data.t = "arr"
    THEN Arr([i \in 1..Len(data.a) |-> RulesOnRecord(data.a[i], rules)])
    ELSE RulesOnRecord(data, rules)

\* C21: rule isolation. With transform.enabled, a fetched record (or each
\* record of a fetched list) reaches persistence.save with every field holding
\* what its own rules make of it: a field whose transformation raises keeps
\* its value, the other rules of the list are applied with their normal
\* result whatever their position, the transformation does not raise (the
\* harvest gets to save whenever there is data), and a rule whose field is
\* absent or falsy changes nothing.
C21_RuleFailureIsIsolated ==
    (trHarvest.called /\ trHarvest.config.enabled /\ NonEmpty(trHarvest.payload)) =>
        /\ trHarvest.saved # NoValue
        /\ trHarvest.saved = RulesOnData(trHarvest.payload, trHarvest.config.rules)

\* A record whose date is not a date went through a date rule followed by an
\* enum rule: the date is kept, the enum is mapped.
C21_Witness ==
    /\ trHarvest.called
    /\ trHarvest.config.enabled
    /\ trHarvest.config.rules = <<DateRule("YYYY-MM-DD"), EnumRule>>
    /\ trHarvest.payload \in UnitesLegales
    /\ trHarvest.payload.f.dateCreationUniteLegale = Str("pas une date")
    /\ trHarvest.payload.f.trancheEffectifsUniteLegale = Str("01")
    /\ trHarvest.saved # NoValue
    /\ trHarvest.saved.f.dateCreationUniteLegale = Str("pas une date")
    /\ trHarvest.saved.f.trancheEffectifsUniteLegale = Str("1 ou 2 salariés")

(***************************************************************************)
(* ConfigManager: interpolation of environment variables in the loaded     *)
(* documents (src/unnamed/part_013)                                        *)
(***************************************************************************)
\* A string is a sequence of pieces: literal text and placeholders ${NAME}.
Lit(text) == [kind |-> "lit", v |-> text]
Placeholder(name) == [kind |-> "var", v |-> name]
Num(n) == [t |-> "num", v |-> n]
\* A document that is not in the tree: fs.readFile rejects.
MissingDocument == [t |-> "missing"]

EnvNames == {"INSEE_API_KEY", "MONGODB_URI"}

\* process.env[NAME]: undefined, the empty string, or a value
EnvValues ==
    {[set |-> FALSE, v |-> ""], [set |-> TRUE, v |-> ""], [set |-> TRUE, v |-> "s3cret"]}

\* The documents loadConfiguration reads: global.json and the five documents
\* of a source directory.
TreeDocuments == {"global", "connection", "persistence", "schedule", "transform", "health"}

\* What a document holds: a flat object, or one with a nested object and an
\* array.
DocumentContents ==
    { Obj([url |-> Str(<<Lit("https://host/"), Placeholder("INSEE_API_KEY")>>),
           timeout |-> Num(30)]),
      Obj([options |-> Obj([uri |-> Str(<<Placeholder("MONGODB_URI")>>)]),
           keys |-> Arr(<<Str(<<Lit("Bearer "), Placeholder("INSEE_API_KEY"), Lit(":"),
                                Placeholder("MONGODB_URI")>>),
                          Str(<<Lit("plain")>>)>>)]) }

\* `process.env[envVar] || match` on one piece of a string
ReplaceMatch(piece, env) ==
    IF piece.kind = "var" /\ env[piece.v].set /\ env[piece.v].v # ""
    THEN Lit(env[piece.v].v)
    ELSE piece

\* replaceEnvVars(obj)
RECURSIVE ReplaceEnvVars(_, _)
ReplaceEnvVars(obj, env) ==
    CASE obj.t = "str" -> Str([i \in 1..Len(obj.v) |-> ReplaceMatch(obj.v[i], env)])
      [] obj.t = "arr" -> Arr([i \in 1..Len(obj.a) |-> ReplaceEnvVars(obj.a[i], env)])
      [] obj.t = "obj" -> Obj([k \in DOMAIN obj.f |-> ReplaceEnvVars(obj.f[k], env)])
      [] OTHER -> obj

\* loadSourceConfig from the documents on: each one read in its own try, the
\* field left null when the read fails; only connection goes through
\* replaceEnvVars.
LoadSourceDocuments(tree, env) ==
    [d \in TreeDocuments \ {"global"} |->
        IF tree[d] = MissingDocument THEN JsonNull
        ELSE IF d = "connection" THEN ReplaceEnvVars(tree[d], env)
        ELSE tree[d]]

\* loadConfiguration(): loadGlobalConfig rethrows when global.json cannot be
\* read, and interpolates it otherwise; then the source documents.
LoadConfiguration(tree, env) ==
    IF tree["global"] = MissingDocument
    THEN [called |-> TRUE, threw |-> TRUE]
    ELSE [called |-> TRUE, threw |-> FALSE,
          docs |-> [d \in TreeDocuments |->
                      IF d = "global" THEN ReplaceEnvVars(tree[d], env)
                      ELSE LoadSourceDocuments(tree, env)[d]]]

EvLoadConfiguration ==
    /\ ~evLoaded.called
    /\ evLoaded' = LoadConfiguration(evTree, evEnv)
    /\ UNCHANGED <<evEnv, evTree>>
    /\ UNCHANGED notEv

InitInterpolation ==
    /\ OldIdle /\ MidIdle /\ RtIdle /\ HlIdle /\ HsIdle
    /\ evEnv \in [EnvNames -> EnvValues]
    /\ evTree \in [TreeDocuments -> DocumentContents \cup {MissingDocument}]
    /\ evLoaded = [called |-> FALSE]

NextInterpolation == EvLoadConfiguration

SpecInterpolation == InitInterpolation /\ [][NextInterpolation]_vars

(***************************************************************************)
(* Claims about environment interpolation (checked under SpecInterpolation)*)
(***************************************************************************)
\* out is orig with each ${NAME} whose variable is set replaced by the
\* variable's value and every other piece kept.
RECURSIVE InterpolatedFrom(_, _, _)
InterpolatedFrom(out, orig, env) ==
    /\ out.t = orig.t
    /\ CASE orig.t = "str" ->
              /\ Len(out.v) = Len(orig.v)
              /\ \A i \in 1..Len(orig.v) :
                    out.v[i] = IF orig.v[i].kind = "var" /\ env[orig.v[i].v].set
                               THEN Lit(env[orig.v[i].v].v)
                               ELSE orig.v[i]
         [] orig.t = "arr" ->
              /\ Len(out.a) = Len(orig.a)
              /\ \A i \in 1..Len(orig.a) : InterpolatedFrom(out.a[i], orig.a[i], env)
         [] orig.t = "obj" ->
              /\ DOMAIN out.f = DOMAIN orig.f
              /\ \A k \in DOMAIN orig.f : InterpolatedFrom(out.f[k], orig.f[k], env)
         [] OTHER -> out = orig

\* C22: after loadConfiguration, the global document and each of the source's
\* connection, persistence, schedule, transform and health documents hold the
\* value of every ${NAME} whose variable is set and the literal placeholder of
\* every one whose variable is unset, and an unset variable does not fail the
\* load.
C22_InterpolationCoversEveryDocument ==
    (evLoaded.called /\ evTree["global"] # MissingDocument) =>
        /\ ~evLoaded.threw
        /\ \A d \in TreeDocuments :
              evTree[d] # MissingDocument =>
                  InterpolatedFrom(evLoaded.docs[d], evTree[d], evEnv)

(***************************************************************************)
(* Claims about the status of a health check (checked under SpecHealth)    *)
(***************************************************************************)
HealthStatuses ==
    {"no_config", "disabled", "healthy", "unexpected_status", "connection_error", "error"}

StatusWellFormed(r) ==
    /\ r.status \in HealthStatuses
    /\ r.isHealthy => r.status \in {"healthy", "disabled"}

\* C23: every status checkSourceHealth returns or stores, on every path through
\* the per-type probes, is one of no_config, disabled, healthy,
\* unexpected_status, connection_error and error, and isHealthy is true only
\* with healthy or disabled.
C23_StatusIsOneOfSix ==
    /\ \A i \in 1..Len(hmStore) : StatusWellFormed(hmStore[i])
    /\ (hmLast.called /\ hmLast.returned # NoValue) => StatusWellFormed(hmLast.returned)

(***************************************************************************)
(* Claims about the requests one InseeClient.request call sends (checked   *)
(* under SpecClientFair)                                                   *)
(***************************************************************************)
\* C24: a 429 answer is followed by one wait and one re-issue of the request
\* before control is back in RetryHandler.execute: the re-issue runs at the
\* first attempt of a single nested retry, and one request() call sends at
\* most 2 * maxAttempts HTTP requests (two per attempt).
C24_One429ReissuePerAttempt ==
    /\ Len(cStack) <= 2
    /\ Len(cStack) = 2 => cStack[2] = 1
    /\ cSent <= 2 * rhMaxAttempts

(***************************************************************************)
(* Claims about concurrent callers of SourceManager.initialize (checked    *)
(* under SpecInitialize)                                                   *)
(***************************************************************************)
\* The callers whose initialize() is between its first step and its return.
RunningInitialize == {c \in Callers : inPc[c] # "idle"}

\* C25: when initialize() is invoked by several callers before the first
\* invocation has completed, only one of them runs configuration loading,
\* persistence initialization and connector registration (the others wait for
\* it), and a caller resumes from a call that returned only once
\* initialization has completed.
C25_ConcurrentInitializeRunsOnce ==
    /\ Cardinality(RunningInitialize) <= 1
    /\ \A i \in 1..Len(inHist) : inHist[i].outcome = "returned" => inInitialized

(***************************************************************************)
(* ConfigManager: addSourceConfig, updateSourceConfig and                  *)
(* removeSourceConfig on one source id, await by await                     *)
(* (src/unnamed/part_013)                                                  *)
(***************************************************************************)
\* Bounds: operations started per behaviour, and the configurations told
\* apart (version v of a configuration holds version v of each document).
MaxRegistryOps == 3
MaxConfigVersion == 2

NoFile == 0
DocumentIndexes == 1..Len(DocumentNames)

NoDirectory == [exists |-> FALSE]
EmptyDirectory == [exists |-> TRUE, docs |-> [k \in DocumentIndexes |-> NoFile]]
NoEntry == [present |-> FALSE]
RtReturned == [op |-> "idle"]

\* fs.mkdir(sourceConfigPath, {recursive: true})
Mkdir(tree) == IF tree.exists THEN tree ELSE EmptyDirectory

\* fs.writeFile(path.join(sourceConfigPath, DocumentNames[k]...), ...)
WriteFile(tree, k, version) == [tree EXCEPT !.docs[k] = version]

\* One document of loadSourceConfig: readFile and JSON.parse in a try whose
\* catch leaves the field null
ReadFileOrNull(tree, k) == IF tree.exists THEN tree.docs[k] ELSE NoFile

\* addSourceConfig(sourceId, config), up to the await on fs.mkdir; config
\* holds the five blocks.
RtAddSourceConfig(c) ==
    /\ rtPc[c] = RtReturned
    /\ rtOps < MaxRegistryOps
    /\ \E version \in 1..MaxConfigVersion :
          rtPc' = [rtPc EXCEPT ![c] = [op |-> "add", at |-> "mkdir", k |-> 0,
                                       version |-> version, read |-> <<>>]]
    /\ rtOps' = rtOps + 1
    /\ UNCHANGED <<rtTree, rtRegistry>>
    /\ UNCHANGED notRt

\* updateSourceConfig(sourceId, config): `await this.addSourceConfig(sourceId,
\* config)`, up to the same await
RtUpdateSourceConfig(c) ==
    /\ rtPc[c] = RtReturned
    /\ rtOps < MaxRegistryOps
    /\ \E version \in 1..MaxConfigVersion :
          rtPc' = [rtPc EXCEPT ![c] = [op |-> "update", at |-> "mkdir", k |-> 0,
                                       version |-> version, read |-> <<>>]]
    /\ rtOps' = rtOps + 1
    /\ UNCHANGED <<rtTree, rtRegistry>>
    /\ UNCHANGED notRt

\* fs.mkdir settles: the first writeFile is issued, or the catch rethrows.
RtMkdirSettled(c) ==
    /\ rtPc[c].op \in {"add", "update"} /\ rtPc[c].at = "mkdir"
    /\ \E ok \in BOOLEAN :
          IF ok
          THEN /\ rtTree' = Mkdir(rtTree)
               /\ rtPc' = [rtPc EXCEPT ![c].at = "write", ![c].k = 1]
          ELSE /\ rtPc' = [rtPc EXCEPT ![c] = RtReturned]
               /\ UNCHANGED rtTree
    /\ UNCHANGED <<rtRegistry, rtOps>>
    /\ UNCHANGED notRt

\* A writeFile settles: it throws when the directory is gone or the write
\* fails, and the catch of addSourceConfig rethrows; otherwise the next
\* document is written, and after the last one loadSourceConfig(sourceId)
\* starts reading.
RtWriteFileSettled(c) ==
    /\ rtPc[c].op \in {"add", "update"} /\ rtPc[c].at = "write"
    /\ \E ok \in BOOLEAN :
          IF ok /\ rtTree.exists
          THEN /\ rtTree' = WriteFile(rtTree, rtPc[c].k, rtPc[c].version)
               /\ rtPc' = IF rtPc[c].k < Len(DocumentNames)
                          THEN [rtPc EXCEPT ![c].k = @ + 1]
                          ELSE [rtPc EXCEPT ![c].at = "read", ![c].k = 1]
          ELSE /\ rtPc' = [rtPc EXCEPT ![c] = RtReturned]
               /\ UNCHANGED rtTree
    /\ UNCHANGED <<rtRegistry, rtOps>>
    /\ UNCHANGED notRt

\* A readFile of loadSourceConfig settles; after the last one
\* this.sourceConfigs.set(sourceName, sourceConfig) and the call returns.
RtReadFileSettled(c) ==
    /\ rtPc[c].op \in {"add", "update"} /\ rtPc[c].at = "read"
    /\ LET read == Append(rtPc[c].read, ReadFileOrNull(rtTree, rtPc[c].k))
       IN IF rtPc[c].k < Len(DocumentNames)
          THEN /\ rtPc' = [rtPc EXCEPT ![c].k = @ + 1, ![c].read = read]
               /\ UNCHANGED rtRegistry
          ELSE /\ rtRegistry' = [present |-> TRUE, docs |-> read]
               /\ rtPc' = [rtPc EXCEPT ![c] = RtReturned]
    /\ UNCHANGED <<rtTree, rtOps>>
    /\ UNCHANGED notRt

\* removeSourceConfig(sourceId), up to the await on fs.rm
RtRemoveSourceConfig(c) ==
    /\ rtPc[c] = RtReturned
    /\ rtOps < MaxRegistryOps
    /\ rtPc' = [rtPc EXCEPT ![c] = [op |-> "remove", at |-> "rm"]]
    /\ rtOps' = rtOps + 1
    /\ UNCHANGED <<rtTree, rtRegistry>>
    /\ UNCHANGED notRt

\* fs.rm(sourceConfigPath, {recursive: true, force: true}) settles: then
\* this.sourceConfigs.delete(sourceId), or the catch rethrows.
RtRmSettled(c) ==
    /\ rtPc[c].op = "remove"
    /\ \E ok \in BOOLEAN :
          IF ok
          THEN /\ rtTree' = NoDirectory
               /\ rtRegistry' = NoEntry
          ELSE UNCHANGED <<rtTree, rtRegistry>>
    /\ rtPc' = [rtPc EXCEPT ![c] = RtReturned]
    /\ UNCHANGED rtOps
    /\ UNCHANGED notRt

\* After loadConfiguration(): the source has no directory and no entry, or a
\* directory holding the five documents and the entry loaded from it.
InitRegistryTree ==
    /\ OldIdle /\ MidIdle /\ EvIdle /\ HlIdle /\ HsIdle
    /\ rtPc = [c \in RtCallers |-> RtReturned]
    /\ rtOps = 0
    /\ \/ rtTree = NoDirectory /\ rtRegistry = NoEntry
       \/ /\ rtTree = [exists |-> TRUE, docs |-> [k \in DocumentIndexes |-> 1]]
          /\ rtRegistry = [present |-> TRUE, docs |-> [k \in DocumentIndexes |-> 1]]

NextRegistryTree ==
    \E c \in RtCallers :
        \/ RtAddSourceConfig(c)
        \/ RtUpdateSourceConfig(c)
        \/ RtMkdirSettled(c)
        \/ RtWriteFileSettled(c)
        \/ RtReadFileSettled(c)
        \/ RtRemoveSourceConfig(c)
        \/ RtRmSettled(c)

SpecRegistryTree == InitRegistryTree /\ [][NextRegistryTree]_vars

(***************************************************************************)
(* Claims about the registry and the tree (checked under SpecRegistryTree) *)
(***************************************************************************)
\* C26: once the addSourceConfig, updateSourceConfig and removeSourceConfig
\* calls made on a source id have all returned or thrown, whatever their
\* interleaving and whichever write failed, the id is in the registry if and
\* only if its directory exists in the tree, and its entry holds what loading
\* that directory yields.
C26_RegistryMatchesTree ==
    (\A c \in RtCallers : rtPc[c] = RtReturned) =>
        /\ rtRegistry.present <=> rtTree.exists
        /\ rtRegistry.present => rtRegistry.docs = rtTree.docs

(***************************************************************************)
(* The RateLimiter of each harvest: SourceManager.harvestSource builds a   *)
(* connector, hence an InseeClient and its RateLimiter, per call           *)
(* (src/src/sources/index.js, src/src/sources/insee/index.js,              *)
(* src/src/sources/insee/client.js)                                        *)
(***************************************************************************)
\* Bounds: harvestSourceById calls per behaviour, and requests per harvest.
MaxHarvests == 2
MaxRequestsPerHarvest == 2

HarvestedSources == {"insee-sirene", "insee-bdm"}

\* harvestSource: new ConnectorClass(sourceConfig, ...), whose constructor runs
\* new InseeClient(...), whose constructor runs new RateLimiter(config.rateLimit)
NewConnector(source) ==
    [source |-> source, requests |-> <<>>, pc |-> "ready", arrival |-> 0, wake |-> 0,
     sent |-> 0]

\* A harvestSourceById call gets to connector.harvest.
HlHarvestSourceById ==
    /\ Len(hlHarvests) < MaxHarvests
    /\ \E source \in HarvestedSources :
          hlHarvests' = Append(hlHarvests, NewConnector(source))
    /\ UNCHANGED <<hlClock, hlRpm, hlSent>>
    /\ UNCHANGED notHl

\* InseeClient.request of harvest h: await this.rateLimiter.checkLimit() on
\* the client's own limiter, then the HTTP request; or the suspension of
\* checkLimit when the limiter is at its limit.
HlRequest(h) ==
    /\ h \in DOMAIN hlHarvests
    /\ hlHarvests[h].pc = "ready"
    /\ hlHarvests[h].sent < MaxRequestsPerHarvest
    /\ LET now == hlClock
           kept == FilterWindow(hlHarvests[h].requests, now)
       IN IF OverLimit(kept, hlRpm)
          THEN /\ hlHarvests' = [hlHarvests EXCEPT ![h].requests = kept,
                                                   ![h].pc = "waiting",
                                                   ![h].arrival = now,
                                                   ![h].wake = now + WaitTime(kept, now)]
               /\ UNCHANGED hlSent
          ELSE /\ hlHarvests' = [hlHarvests EXCEPT ![h].requests = Append(kept, now),
                                                   ![h].sent = @ + 1]
               /\ hlSent' = Append(hlSent, [source |-> hlHarvests[h].source, at |-> now])
    /\ UNCHANGED <<hlClock, hlRpm>>
    /\ UNCHANGED notHl

\* The wait of checkLimit is over: the `now` read on entry is pushed and the
\* request is sent.
HlResumeAfterWait(h) ==
    /\ h \in DOMAIN hlHarvests
    /\ hlHarvests[h].pc = "waiting"
    /\ hlClock >= hlHarvests[h].wake
    /\ hlHarvests' = [hlHarvests EXCEPT
                         ![h].requests = Append(@, hlHarvests[h].arrival),
                         ![h].pc = "ready",
                         ![h].sent = @ + 1]
    /\ hlSent' = Append(hlSent, [source |-> hlHarvests[h].source, at |-> hlClock])
    /\ UNCHANGED <<hlClock, hlRpm>>
    /\ UNCHANGED notHl

\* Time passes.
HlTick ==
    /\ hlClock < MaxTicks * TickMs
    /\ hlClock' = hlClock + TickMs
    /\ UNCHANGED <<hlRpm, hlHarvests, hlSent>>
    /\ UNCHANGED notHl

InitHarvestLimiters ==
    /\ OldIdle /\ MidIdle /\ EvIdle /\ RtIdle /\ HsIdle
    /\ hlClock = 0
    /\ hlRpm \in 1..MaxRpmCfg
    /\ hlHarvests = <<>>
    /\ hlSent = <<>>

NextHarvestLimiters ==
    \/ HlHarvestSourceById
    \/ \E h \in 1..MaxHarvests : HlRequest(h) \/ HlResumeAfterWait(h)
    \/ HlTick

SpecHarvestLimiters == InitHarvestLimiters /\ [][NextHarvestLimiters]_vars

(***************************************************************************)
(* Claims about the request rate of a source across harvests (checked      *)
(* under SpecHarvestLimiters)                                              *)
(***************************************************************************)
\* The requests sent to the source of request i in the 60 seconds from it on.
SentInWindowFrom(i) ==
    {j \in DOMAIN hlSent : /\ hlSent[j].source = hlSent[i].source
                           /\ hlSent[j].at >= hlSent[i].at
                           /\ hlSent[j].at < hlSent[i].at + WindowMs}

\* C27: over any sequence of harvestSourceById calls on a source, sequential
\* or overlapping, the requests sent to that source within any 60-second
\* interval never exceed its requestsPerMinute; and the limiter of a harvest
\* records nothing but that harvest's own requests, so harvests of different
\* sources share no limiter state.
C27_PerSourceCapAcrossHarvests ==
    /\ \A i \in DOMAIN hlSent : Cardinality(SentInWindowFrom(i)) <= hlRpm
    /\ \A h \in DOMAIN hlHarvests :
          Len(hlHarvests[h].requests) <= hlHarvests[h].sent

(***************************************************************************)
(* HealthManager.getHealthSummary (src/src/health/HealthManager.js)        *)
(***************************************************************************)
\* Bound on the records stored per behaviour
MaxStored == 3

\* A value the record does not carry: errorStatus has no responseTime, and the
\* summary gives null for what it did not find.
NoNumber == 0

\* The records storeHealthCheck saves: healthStatus after a probe, with the
\* elapsed time, or errorStatus; timestamp is new Date(), here the rank of the
\* record.
HealthRecords(timestamp) ==
    { [sourceId |-> src.id, isHealthy |-> v.isHealthy, status |-> v.status,
       responseTime |-> rt, timestamp |-> timestamp] :
        src \in HealthSources,
        v \in {Healthy, UnexpectedStatus, ConnectionError, NoEndpointConfig},
        rt \in ResponseTimes }
    \cup { [sourceId |-> src.id, isHealthy |-> FALSE, status |-> "error",
            responseTime |-> NoNumber, timestamp |-> timestamp] : src \in HealthSources }

\* The entry of one source: `latestCheck` is recentChecks[0] of
\* getRecentFailures(source.sourceId, 1)
SummaryEntry(recentChecks) ==
    IF recentChecks # <<>>
    THEN [isHealthy |-> recentChecks[1].isHealthy, lastCheck |-> recentChecks[1].timestamp,
          responseTime |-> recentChecks[1].responseTime, status |-> recentChecks[1].status]
    ELSE [isHealthy |-> FALSE, lastCheck |-> NoNumber, responseTime |-> NoNumber,
          status |-> "unknown"]

\* getHealthSummary(): find every record, then one entry per sourceId found;
\* the catch returns {} when that find fails. failing: the sources whose
\* getRecentFailures find fails.
GetHealthSummary(store, findFails, failing) ==
    IF findFails THEN <<>>
    ELSE [s \in {store[i].sourceId : i \in DOMAIN store} |->
            SummaryEntry(GetRecentFailures(store, s, 1, s \in failing))]

\* A health check stores its record.
HsStoreHealthCheck ==
    /\ Len(hsStore) < MaxStored
    /\ \E record \in HealthRecords(Len(hsStore) + 1) : hsStore' = Append(hsStore, record)
    /\ UNCHANGED hsSummary
    /\ UNCHANGED notHs

HsGetHealthSummary ==
    /\ \E findFails \in BOOLEAN, failing \in SUBSET {src.id : src \in HealthSources} :
          /\ findFails => failing = {}
          /\ hsSummary' = [called |-> TRUE, stored |-> Len(hsStore),
                           findFailed |-> (findFails \/ failing # {}),
                           returned |-> GetHealthSummary(hsStore, findFails, failing)]
    /\ UNCHANGED hsStore
    /\ UNCHANGED notHs

InitHealthSummary == OldIdle /\ NewIdle

NextHealthSummary == HsStoreHealthCheck \/ HsGetHealthSummary

SpecHealthSummary == InitHealthSummary /\ [][NextHealthSummary]_vars

(***************************************************************************)
(* Claims about the health summary (checked under SpecHealthSummary)       *)
(***************************************************************************)
\* The most recent of the first n records that is about source s.
LatestCheck(s, n) ==
    hsStore[CHOOSE i \in 1..n :
                /\ hsStore[i].sourceId = s
                /\ \A j \in (i + 1)..n : hsStore[j].sourceId # s]

\* C28: when persistence answers, getHealthSummary reports for every source
\* that has a stored health record the isHealthy, status, responseTime and
\* timestamp of that source's most recent check; a source whose most recent
\* check was healthy is reported with isHealthy = true.
C28_SummaryReportsLatestCheck ==
    (hsSummary.called /\ ~hsSummary.findFailed) =>
        \A s \in {hsStore[i].sourceId : i \in 1..hsSummary.stored} :
            /\ s \in DOMAIN hsSummary.returned
            /\ LET latest == LatestCheck(s, hsSummary.stored)
               IN hsSummary.returned[s] =
                     [isHealthy |-> latest.isHealthy, lastCheck |-> latest.timestamp,
                      responseTime |-> latest.responseTime, status |-> latest.status]

(***************************************************************************)
(* Claims about the HarvestResult (checked under SpecTransform)            *)
(***************************************************************************)
\* The number of records persistenceManager.save was given: none when it was
\* not called, the length of a list, one for a single record.
RecordsHandedToSave(saved) ==
    IF saved = NoValue THEN 0
    ELSE IF saved.t = "arr" THEN Len(saved.a) ELSE 1

\* C29: the dataCount of the HarvestResult equals the number of records the
\* harvest handed to persistence.save; when the fetch yields no data (null, an
\* empty list or an empty object) save is not called and dataCount is 0.
C29_DataCountIsRecordsSaved ==
    trHarvest.called =>
        /\ trHarvest.dataCount = RecordsHandedToSave(trHarvest.saved)
        /\ trHarvest.payload \in {JsonNull, Obj(<<>>), Arr(<<>>)} =>
              (trHarvest.saved = NoValue /\ trHarvest.dataCount = 0)

(***************************************************************************)
(* Claims about harvesting a loaded source (checked under SpecHarvestById) *)
(***************************************************************************)
\* C30: a source that ConfigManager loaded from a directory named after a
\* registered connector type is harvestable end to end: on an initialized
\* manager harvestSourceById resolves its connector, builds the remote client
\* and reaches the fetch sub-operation its id selects, instead of failing
\* with 'connector not found', in the constructor, or with 'unsupported
\* source'.
C30_LoadedSourceIsHarvestable ==
    (/\ hbLast.called /\ hbLast.initOk
     /\ \E dir \in SourceDirs \cap RegisteredConnectors :
           /\ LoadedSourceConfig(dir) \in hbRegistry
           /\ hbLast.sourceId = dir) =>
        hbLast.stage = "fetch"

====
